---- MODULE Spec2Model ----
(***************************************************************************)
(* UltraImageViewer: the thumbnail pipeline (ImagePipeline) and its        *)
(* priority worker pool (ThreadPool).                                      *)
(*                                                                         *)
(* One render thread calls the pipeline's entry points; the pool's workers *)
(* run ThumbnailDecodeTask.  Every action is one critical section of the   *)
(* code (one lock acquisition, or one atomic access), so the interleavings *)
(* of the model are those of the threads.                                  *)
(*                                                                         *)
(* Sizes are counted in cache units of 128 MiB: the 1 GiB Tier-1 ceiling   *)
(* is 8 units, the 256 MiB Tier-2 budget is 2 units.  Access times are     *)
(* kept as dense ranks (1 = oldest): only their order is ever read.        *)
(***************************************************************************)
EXTENDS Integers, Sequences, FiniteSets, TLC

\* ------------------------------------------------------------------ bounds

\* At most MaxSubmits tasks are submitted to the pool of SpecPool.
MaxSubmits == 3
\* InvalidateRequests is called at most MaxGen times.
MaxGen == 1
\* At most MaxQueue tasks are queued in the three lanes together.
MaxQueue == 2
\* At most MaxReady decoded buffers wait in the ready queue.
MaxReady == 2
\* The largest maxCount handed to FlushReadyThumbnails.
MaxFlush == 2
\* The tracked Tier-1 byte counter is followed up to MaxTracked units.
MaxTracked == 13

\* The image files of the gallery, in gallery order.
AllPaths == <<"a", "b", "c">>
Paths == {AllPaths[i] : i \in 1..Len(AllPaths)}
\* Files the decoder can decode (GenerateThumbnail or Decode succeeds).
Decodable == {"a", "b"}
\* Paths with a record in the persistent thumbnail file of an earlier session.
CacheFilePaths == {"b", "c"}
\* width * height * 4 of a path's thumbnail, in cache units.
PixelBytes(p) == IF p = "c" THEN 4 ELSE 3
\* Size of a compressed thumbnail, in cache units.
CompressedBytes(p) == 1
Workers == {"w1"}
\* The pool's threads where the worker loop itself is followed.
PoolThreads == {"t1", "t2"}
\* The threads that take the pipeline's locks: the render thread, a pool
\* worker, the thread saving the thumbnail file and the thread loading it.
Threads == {"render", "worker", "save", "load"}

\* --------------------------------------------------------- program constants

High == 0
Normal == 1
Low == 2
kLaneCount == 3
ThumbnailCacheMaxBytes == 8
kTier2MaxBytes == 2
PersistSyncBudgetPerFrame == 1
\* PrefetchAround's default radius.
PrefetchRadius == 3

NoPath == "-"
\* No closure of GetBitmapAsync.
NoClosure == [path |-> "-", cb |-> 0]

VARIABLES
    generation_,          \* std::atomic<uint64_t> generation_
    invalidateCalls,      \* number of InvalidateRequests calls begun (history)
    lanes_,               \* lanes_[i].queue, i = 0 (High), 1 (Normal), 2 (Low)
    wk,                   \* each worker: its position in ThumbnailDecodeTask
    thumbnailCache_,      \* Tier 1: path -> [bytes, lastAccess]
    thumbnailCacheBytes_, \* tracked Tier-1 bytes
    tier2Cache_,          \* Tier 2: path -> compressedSize
    tier2Bytes_,
    persistIndex_,        \* Tier 3: the paths of the mapped index
    persistLoaded,        \* LoadPersistentThumbs has run
    thumbSaveBuffer_,     \* paths whose raw pixels are in the save buffer
    pendingRequests_,     \* path -> generation
    visiblePaths_,
    readyQueue_,          \* sequence of [path, bytes]
    persistSyncBudget_,
    rpc,                  \* the render thread's position
    ret                   \* the return the render thread last passed: [site, n]

poolVars == <<lanes_, wk>>
cacheVars == <<thumbnailCache_, thumbnailCacheBytes_, tier2Cache_, tier2Bytes_,
               thumbSaveBuffer_>>
persistVars == <<persistIndex_, persistLoaded>>

\* The pool's idle accounting.  pending_ and active_ are read only by WaitIdle
\* and by the purges' wake-up test, and the pipeline never calls WaitIdle: the
\* pipeline's actions follow the lanes alone, SpecPool follows the counters.
VARIABLES
    pending_,             \* std::atomic<uint32_t> pending_
    active_,              \* std::atomic<uint32_t> active_
    mutex_,               \* the thread holding ThreadPool::mutex_, or "free"
    cl,                   \* the submitting thread: its position, and a count
    waiter,               \* the thread calling WaitIdle: its position
    submitted,            \* number of tasks submitted so far (history)
    frontTasks,           \* tasks that were submitted with SubmitFront (history)
    purgedTasks           \* tasks a purge dropped (history)

tpVars == <<pending_, active_, mutex_, cl, waiter, submitted, frontTasks,
            purgedTasks>>

\* The persistent thumbnail file and what the pipeline holds of it, byte for
\* byte.  persistIndex_ and thumbSaveBuffer_ above are the key sets of
\* persistThumbInfo and thumbSaveEntries.
VARIABLES
    fs,                   \* the files at cachePath and at tmpPath: bytes, or NoFile
    persistData_,         \* the bytes of the mapped view, or NullView
    persistThumbInfo,     \* persistIndex_: path -> PersistThumbInfo
    thumbSaveEntries,     \* thumbSaveBuffer_: path -> ThumbSaveEntry
    sv,                   \* the call of SavePersistentThumbs: position and locals
    ld                    \* the calls of LoadPersistentThumbs, by caller

fileVars == <<fs, persistData_, persistThumbInfo, thumbSaveEntries, sv, ld>>

\* The scan of the album folders and the file its result is cached in.
VARIABLES
    scanCacheFile,        \* the bytes of the scan cache file, or NoFile
    cached,               \* the call of LoadScanCache: position and result
    albumFolders,         \* albumFolders_
    folderProfiles_,      \* the visit counts StartFullScan orders the folders by
    cancelFlag,           \* scanCancelled_, ScanFolders' cancelFlag
    sc                    \* the call of ScanFolders: position and locals

scanVars == <<scanCacheFile, cached, albumFolders, folderProfiles_, cancelFlag,
              sc>>

\* The pipeline's locks and the locals held across them, followed only where
\* an operation is taken apart into its critical sections.
VARIABLES
    cacheMutex_,          \* the thread holding cacheMutex_, or "free"
    syncRead,             \* the synchronous Tier-3 path: path, w, h, pixelPtr
    demoteList            \* EvictThumbnailsIfNeeded: demoteList

sectionVars == <<cacheMutex_, syncRead, demoteList>>

\* The decode task's locals, followed only where a claim is about them.
VARIABLES
    fromTier2             \* the workers whose `pixels` was decompressed from Tier 2

taskVars == <<fromTier2>>

\* The pool's worker loop and its destructor.
VARIABLES
    shutdown_,            \* std::atomic<bool> shutdown_
    loop,                 \* each pool thread: its position in WorkerFunc
    dtor                  \* the thread in ImagePipeline::Shutdown: its position

shutdownVars == <<shutdown_, loop, dtor>>

\* The pipeline's five locks, by holder, where only the locking is followed.
VARIABLES
    held,                 \* each thread: the locks it holds, in the order taken
    inOp                  \* each thread: the operation it is in and its position

lockVars == <<held, inOp>>

\* The full-image prefetch of the viewer.
VARIABLES
    fullImageCache_,      \* the paths with a full-size bitmap
    asyncCalls,           \* number of GetBitmapAsync calls made (history)
    cbCount,              \* per call: how often its callback was invoked (history)
    asyncTask             \* each worker: the GetBitmapAsync closure it runs

asyncVars == <<fullImageCache_, asyncCalls, cbCount, asyncTask>>

\* The application's scan state and what the gallery shows.
VARIABLES
    isScanning_,          \* the atomic flag of the same name
    scanDirty_,           \* the atomic flag of the same name
    scannedResults_,      \* the list under scanMutex_
    hiddenAlbumPaths_,    \* the albums removed by the user
    gallery,              \* GalleryView: its images, scanning state, manual mode
    currentImages_,       \* the flat list of the viewer
    inManualOpen_,        \* set by OpenImages, cleared when a scan is finalized
    ui,                   \* the main thread: its position between the frames
    scanNo,               \* number of StartFullScan calls made (history)
    finalizedLog          \* the one-shot rebuilds made, in order (history)

appVars == <<isScanning_, scanDirty_, scannedResults_, hiddenAlbumPaths_,
             gallery, currentImages_, inManualOpen_, ui, scanNo, finalizedLog>>

\* What the operations taken apart into critical sections leave alone.
outsideSections == <<tpVars, fileVars, scanVars, appVars, shutdownVars, lockVars,
                     asyncVars>>

vars == <<generation_, invalidateCalls, lanes_, wk, thumbnailCache_,
          thumbnailCacheBytes_, tier2Cache_, tier2Bytes_, persistIndex_,
          persistLoaded, thumbSaveBuffer_, pendingRequests_, visiblePaths_,
          readyQueue_, persistSyncBudget_, rpc, ret, pending_, active_, mutex_,
          cl, waiter, submitted, frontTasks, purgedTasks, fs, persistData_,
          persistThumbInfo, thumbSaveEntries, sv, ld, scanCacheFile, cached,
          albumFolders, folderProfiles_, cancelFlag, sc, cacheMutex_,
          syncRead, demoteList, fromTier2, shutdown_, loop, dtor, held, inOp,
          fullImageCache_, asyncCalls, cbCount, asyncTask, isScanning_,
          scanDirty_, scannedResults_, hiddenAlbumPaths_, gallery,
          currentImages_, inManualOpen_, ui, scanNo, finalizedLog>>

\* The variables of the components outside the thumbnail pipeline.
otherComponents == <<tpVars, fileVars, scanVars, appVars, sectionVars, taskVars,
                    shutdownVars, lockVars, asyncVars>>

pipelineVars == <<generation_, invalidateCalls, cacheVars, persistVars,
                  pendingRequests_, visiblePaths_, readyQueue_,
                  persistSyncBudget_, rpc, ret>>

\* What the pool's own operations leave alone.
outsidePool == <<pipelineVars, fileVars, scanVars, appVars, sectionVars, taskVars,
                shutdownVars, lockVars, asyncVars>>

\* What the save and the load of the persistent thumbnail file leave alone.
outsidePersist == <<tpVars, scanVars, appVars, sectionVars, taskVars, shutdownVars, lockVars, asyncVars, generation_, invalidateCalls, poolVars, thumbnailCache_,
                    thumbnailCacheBytes_, tier2Cache_, tier2Bytes_,
                    pendingRequests_, visiblePaths_, readyQueue_,
                    persistSyncBudget_, rpc, ret>>

\* What the application's scan handling leaves alone.
outsideApp == <<pipelineVars, poolVars, tpVars, fileVars, sectionVars, taskVars,
               shutdownVars, lockVars, asyncVars>>

\* What the scan and the scan cache leave alone.
outsideScan == <<outsideApp, appVars>>

\* ------------------------------------------------------------------ helpers

Max(S) == CHOOSE x \in S : \A y \in S : y <= x

\* The map with no key.
EmptyMap == [q \in {} |-> 0]

\* A map with the keys of S erased.
Without(f, S) == [q \in DOMAIN f \ S |-> f[q]]

\* map[k] = v
With(f, k, v) == [q \in DOMAIN f \cup {k} |-> IF q = k THEN v ELSE f[q]]

\* A count that ignores the limit of the caller.
Min_IgnoresLimit(a, b) == b

Min(a, b) == IF a <= b THEN a ELSE b

IdleWorker == [pc |-> "idle", path |-> NoPath, gen |-> 0, lane |-> -1]

\* The return statement a call of the render thread ended at, and the count
\* it returned or worked on (0 where there is none).
Return(site, n) == [site |-> site, n |-> n]

\* RequestThumbnail returned a bitmap (at its Tier-1 hit or its synchronous
\* Tier-3 upload); at its other two returns it returned null.
ReturnedBitmap(r) == r.site \in {"hit", "sync"}
ReturnedNull(r) == r.site \in {"pending", "queued"}

Task(p, g) == [path |-> p, gen |-> g]

QueuedCount == Len(lanes_[High]) + Len(lanes_[Normal]) + Len(lanes_[Low])

\* steady_clock::now() is at least every earlier reading: the latest
\* lastAccess of the cache, or one more.
Latest(cache) == IF DOMAIN cache = {} THEN 0
                 ELSE Max({cache[q].lastAccess : q \in DOMAIN cache})

Rank(cache, p) ==
    Cardinality({cache[q].lastAccess : q \in {r \in DOMAIN cache :
                     cache[r].lastAccess < cache[p].lastAccess}}) + 1

Normalize(cache) ==
    [p \in DOMAIN cache |-> [cache[p] EXCEPT !.lastAccess = Rank(cache, p)]]

\* it->second.lastAccess = now()
Touch(cache, p, tie) ==
    Normalize([cache EXCEPT ![p].lastAccess =
                   Latest(cache) + (IF tie THEN 0 ELSE 1)])

\* thumbnailCache_[path] = entry, with entry.lastAccess = now()
Insert(cache, p, bytes, tie) ==
    Normalize([q \in DOMAIN cache \cup {p} |->
                  IF q = p
                  THEN [bytes |-> bytes,
                        lastAccess |-> Latest(cache) + (IF tie THEN 0 ELSE 1)]
                  ELSE cache[q]])

\* Sum of width*height*4 over the entries of Tier 1.
RECURSIVE SumBytes(_, _)
SumBytes(cache, S) ==
    IF S = {} THEN 0
    ELSE LET p == CHOOSE q \in S : TRUE
         IN cache[p].bytes + SumBytes(cache, S \ {p})

ResidentBytes(cache) == SumBytes(cache, DOMAIN cache)

\* ------------------------------------------------------------------- Init

\* No file at either path, nothing mapped, no save or load under way.
\* (Values that no sequence of bytes equals.)
NoFile == <<-1>>
NullView == <<-2>>
SaveIdle == [pc |-> "idle", saveBuffer |-> EmptyMap, todo |-> <<>>, total |-> 0,
             err |-> FALSE, moved |-> FALSE, image |-> <<>>]
LoadCall(pc, data, outcome) == [pc |-> pc, data |-> data, outcome |-> outcome]

\* No pixelPtr is held.
NoSyncRead == [caller |-> "none", path |-> NoPath, w |-> 0, h |-> 0,
               pixelPtr |-> 0, unmaps |-> 0]

\* The scans one run starts.
MaxScans == 2

\* The albums one run removes.
MaxHidden == 2

\* The main thread between two frames of the message loop.
MainLoop == [pc |-> "loop", site |-> "-", paths |-> <<>>, opened |-> <<>>]

\* The main thread in Run, before the scan it starts ahead of its message
\* loop.
Startup == [MainLoop EXCEPT !.pc = "startup"]

InitPipeline ==
    /\ generation_ = 0
    /\ invalidateCalls = 0
    /\ lanes_ = [i \in 0..(kLaneCount - 1) |-> <<>>]
    /\ wk = [w \in Workers |-> IdleWorker]
    /\ thumbnailCache_ = EmptyMap
    /\ thumbnailCacheBytes_ = 0
    /\ tier2Cache_ = EmptyMap
    /\ tier2Bytes_ = 0
    /\ pendingRequests_ = EmptyMap
    /\ visiblePaths_ = {}
    /\ readyQueue_ = <<>>
    /\ persistSyncBudget_ = 0
    /\ rpc = "idle"
    /\ ret = Return("none", 0)
    /\ cacheMutex_ = "free"
    /\ syncRead = NoSyncRead
    /\ demoteList = <<>>
    /\ fromTier2 = {}
    /\ fullImageCache_ = {}
    /\ asyncCalls = 0
    /\ cbCount = <<>>
    /\ asyncTask = [w \in Workers |-> NoClosure]

InitThreadPool ==
    /\ isScanning_ = FALSE
    /\ scanDirty_ = FALSE
    /\ scannedResults_ = <<>>
    /\ hiddenAlbumPaths_ = <<>>
    /\ gallery = [images |-> <<>>, scanning |-> FALSE, manual |-> FALSE]
    /\ currentImages_ = <<>>
    /\ inManualOpen_ = FALSE
    /\ ui = Startup
    /\ scanNo = 0
    /\ finalizedLog = <<>>
    /\ held = [t \in Threads |-> <<>>]
    /\ inOp = [t \in Threads |-> [op |-> "idle", i |-> 0]]
    /\ shutdown_ = FALSE
    /\ loop = [t \in PoolThreads |-> "while"]
    /\ dtor = "alive"
    /\ pending_ = 0
    /\ active_ = 0
    /\ mutex_ = "free"
    /\ cl = [pc |-> "idle", n |-> 0]
    /\ waiter = "out"
    /\ submitted = 0
    /\ frontTasks = {}
    /\ purgedTasks = {}

\* No thumbnail file, an empty save buffer, nothing mapped.
InitNoFiles ==
    /\ persistIndex_ = {}
    /\ persistLoaded = FALSE
    /\ thumbSaveBuffer_ = {}
    /\ fs = [cachePath |-> NoFile, tmpPath |-> NoFile]
    /\ persistData_ = NullView
    /\ persistThumbInfo = EmptyMap
    /\ thumbSaveEntries = EmptyMap
    /\ sv = SaveIdle
    /\ ld = [c \in {"load", "save"} |-> LoadCall("idle", NullView, "none")]

\* ScanFolders not called: its locals as it declares them.
ScanIdle == [pc |-> "idle", folders |-> <<>>, dir |-> 0, it |-> 0, seen |-> {},
             result |-> <<>>, outCount |-> 0, lastFlushCount |-> 0,
             cancelled |-> FALSE]

\* No scan cache file, LoadScanCache not called, no album folder, no scan.
InitNoScan ==
    /\ scanCacheFile = NoFile
    /\ cached = [pc |-> "idle", results |-> <<>>]
    /\ albumFolders = <<>>
    /\ folderProfiles_ = <<>>
    /\ cancelFlag = FALSE
    /\ sc = ScanIdle

Init ==
    /\ InitPipeline
    /\ InitThreadPool
    /\ InitNoFiles
    /\ InitNoScan

\* ------------------------------------------------------------ ThreadPool

\* lanes_[p].queue.push_back(fn)
Submit(ls, t, p) == [ls EXCEPT ![p] = Append(@, t)]

\* A SubmitFront that pushes to the back of the lane.
SubmitFront_Back(ls, t, p) == [ls EXCEPT ![p] = Append(@, t)]

\* lanes_[p].queue.push_front(fn)
SubmitFront(ls, t, p) == [ls EXCEPT ![p] = <<t>> \o @]

\* every fn of the batch pushed to the back, in order
SubmitBatch(ls, ts, p) == [ls EXCEPT ![p] = @ \o ts]

\* A purge that leaves the last task of the lane queued.
PurgePriority_KeepLast(ls, p) ==
    [ls EXCEPT ![p] = IF @ = <<>> THEN @ ELSE <<@[Len(@)]>>]

\* A purge that leaves the lane as it is.
PurgePriority_Nothing(ls, p) == ls

\* q.clear()
PurgePriority(ls, p) == [ls EXCEPT ![p] = <<>>]

\* A dequeue that scans the lanes from Low to High.
TryDequeue_LowFirst(ls) ==
    IF \A i \in 0..(kLaneCount - 1) : ls[i] = <<>> THEN -1
    ELSE CHOOSE i \in 0..(kLaneCount - 1) :
             /\ ls[i] # <<>>
             /\ \A j \in (i + 1)..(kLaneCount - 1) : ls[j] = <<>>

\* The lane TryDequeue takes from: the first non-empty one, or -1.
TryDequeue(ls) ==
    IF \A i \in 0..(kLaneCount - 1) : ls[i] = <<>> THEN -1
    ELSE CHOOSE i \in 0..(kLaneCount - 1) :
             /\ ls[i] # <<>>
             /\ \A j \in 0..(i - 1) : ls[j] = <<>>

\* A worker's TryDequeue succeeds and executeTask enters the task.
Dequeue(w) ==
    /\ wk[w].pc = "idle"
    /\ TryDequeue(lanes_) # -1
    /\ LET i == TryDequeue(lanes_)
           t == Head(lanes_[i])
       IN /\ lanes_' = [lanes_ EXCEPT ![i] = Tail(@)]
          /\ wk' = [wk EXCEPT ![w] = [pc |-> "gen1", path |-> t.path,
                                      gen |-> t.gen, lane |-> i]]
    /\ UNCHANGED <<otherComponents, generation_, invalidateCalls, cacheVars, persistVars,
                   pendingRequests_, visiblePaths_, readyQueue_,
                   persistSyncBudget_, rpc, ret>>

\* ------------------------------------------- ImagePipeline::ThumbnailDecodeTask

workerVarsOnly == <<otherComponents, generation_, invalidateCalls, lanes_, persistVars,
                    pendingRequests_, visiblePaths_, persistSyncBudget_, rpc,
                    ret>>

\* if (generation < generation_.load()) return;
Stale(gen) == gen < generation_

\* First abort check: the captured generation is already stale.
TaskCheckGeneration(w) ==
    /\ wk[w].pc = "gen1"
    /\ wk' = [wk EXCEPT ![w] = IF Stale(wk[w].gen) THEN IdleWorker
                                ELSE [@ EXCEPT !.pc = "cached"]]
    /\ UNCHANGED <<workerVarsOnly, cacheVars, readyQueue_>>

\* Second abort check: another worker already completed this path.
TaskCheckCached(w) ==
    /\ wk[w].pc = "cached"
    /\ wk' = [wk EXCEPT ![w] = IF wk[w].path \in DOMAIN thumbnailCache_
                                THEN IdleWorker
                                ELSE [@ EXCEPT !.pc = "tier2"]]
    /\ UNCHANGED <<workerVarsOnly, cacheVars, readyQueue_>>

\* Tier 2 under cacheMutex_: decompress, and on success erase the entry.
TaskTier2(w) ==
    /\ wk[w].pc = "tier2"
    /\ LET p == wk[w].path IN
       \/ /\ p \notin DOMAIN tier2Cache_
          /\ wk' = [wk EXCEPT ![w].pc = "tier3"]
          /\ UNCHANGED <<tier2Cache_, tier2Bytes_>>
       \/ /\ p \in DOMAIN tier2Cache_          \* DecompressPixels succeeds
          /\ tier2Bytes_' = tier2Bytes_ - tier2Cache_[p]
          /\ tier2Cache_' = Without(tier2Cache_, {p})
          /\ wk' = [wk EXCEPT ![w].pc = "gen2"]
       \/ /\ p \in DOMAIN tier2Cache_          \* DecompressPixels fails
          /\ wk' = [wk EXCEPT ![w].pc = "tier3"]
          /\ UNCHANGED <<tier2Cache_, tier2Bytes_>>
    /\ UNCHANGED <<workerVarsOnly, thumbnailCache_, thumbnailCacheBytes_,
                   thumbSaveBuffer_, readyQueue_>>

\* A task that hands over a buffer although both decodes failed.
TaskTier3OrDecode_PushesOnFailure(w) ==
    /\ wk[w].pc = "tier3"
    /\ wk' = [wk EXCEPT ![w].pc = "gen2"]
    /\ UNCHANGED <<workerVarsOnly, cacheVars, readyQueue_>>

\* Tier 3 under the shared persistMutex_, else the decoder (GenerateThumbnail,
\* then the full Decode); a failed decode ends the task.
TaskTier3OrDecode(w) ==
    /\ wk[w].pc = "tier3"
    /\ LET p == wk[w].path IN
       wk' = [wk EXCEPT ![w] =
                 IF p \in persistIndex_ \/ p \in Decodable
                 THEN [@ EXCEPT !.pc = "gen2"]
                 ELSE IdleWorker]
    /\ UNCHANGED <<workerVarsOnly, cacheVars, readyQueue_>>

\* Third abort check: the generation went stale during the decode.
TaskRecheckGeneration(w) ==
    /\ wk[w].pc = "gen2"
    /\ wk' = [wk EXCEPT ![w] = IF Stale(wk[w].gen) THEN IdleWorker
                                ELSE [@ EXCEPT !.pc = "push"]]
    /\ UNCHANGED <<workerVarsOnly, cacheVars, readyQueue_>>

\* A task that ends without handing over its pixels.
TaskPush_Drop(w) ==
    /\ wk[w].pc = "push"
    /\ wk' = [wk EXCEPT ![w] = IdleWorker]
    /\ UNCHANGED <<workerVarsOnly, cacheVars, readyQueue_>>

\* readyQueue_.push_back(ready) under readyMutex_.
TaskPush(w) ==
    /\ wk[w].pc = "push"
    /\ Len(readyQueue_) < MaxReady
    /\ readyQueue_' = Append(readyQueue_,
                        [path |-> wk[w].path, bytes |-> PixelBytes(wk[w].path)])
    /\ wk' = [wk EXCEPT ![w] = IdleWorker]
    /\ UNCHANGED <<workerVarsOnly, cacheVars>>

ThumbnailDecodeTask(w) ==
    \/ TaskCheckGeneration(w)
    \/ TaskCheckCached(w)
    \/ TaskTier2(w)
    \/ TaskTier3OrDecode(w)
    \/ TaskRecheckGeneration(w)
    \/ TaskPush(w)

\* ------------------------------------------- ImagePipeline: the render thread

\* A pending check that never finds the path.
PendingAtCurrentGeneration_Never(p) == FALSE

\* The path is recorded as pending at the current generation.
PendingAtCurrentGeneration(p) ==
    p \in DOMAIN pendingRequests_ /\ pendingRequests_[p] = generation_

\* Step 1 of RequestThumbnail: the Tier-1 lookup hits.
RequestHit(p) ==
    /\ p \in DOMAIN thumbnailCache_
    /\ \E tie \in BOOLEAN : thumbnailCache_' = Touch(thumbnailCache_, p, tie)
    /\ ret' = Return("hit", 0)
    /\ UNCHANGED <<thumbnailCacheBytes_, persistSyncBudget_, pendingRequests_,
                   lanes_>>

\* Step 2: the synchronous Tier-3 path, CreateBitmap succeeding.
RequestSync(p) ==
    /\ p \notin DOMAIN thumbnailCache_
    /\ persistSyncBudget_ > 0
    /\ p \in persistIndex_
    /\ thumbnailCacheBytes_ + PixelBytes(p) <= MaxTracked
    /\ persistSyncBudget_' = persistSyncBudget_ - 1
    /\ \E tie \in BOOLEAN :
           thumbnailCache_' = Insert(thumbnailCache_, p, PixelBytes(p), tie)
    /\ thumbnailCacheBytes_' = thumbnailCacheBytes_ + PixelBytes(p)
    /\ ret' = Return("sync", 0)
    /\ UNCHANGED <<pendingRequests_, lanes_>>

\* A request that queues every decode at the back of the Normal lane.
RequestQueue_AlwaysNormal(p) ==
    /\ p \notin DOMAIN thumbnailCache_
    /\ IF PendingAtCurrentGeneration(p)
       THEN /\ ret' = Return("pending", 0)
            /\ UNCHANGED <<pendingRequests_, lanes_>>
       ELSE /\ QueuedCount < MaxQueue
            /\ pendingRequests_' = With(pendingRequests_, p, generation_)
            /\ lanes_' = Submit(lanes_, Task(p, generation_), Normal)
            /\ ret' = Return("queued", 0)
    /\ UNCHANGED <<thumbnailCache_, thumbnailCacheBytes_, persistSyncBudget_>>

\* Steps 3 and 4: no bitmap was made (a miss of Tiers 1 and 3, no budget, or
\* CreateBitmap failed); queue a decode unless one is pending.
RequestQueue(p) ==
    /\ p \notin DOMAIN thumbnailCache_
    /\ IF PendingAtCurrentGeneration(p)
       THEN /\ ret' = Return("pending", 0)
            /\ UNCHANGED <<pendingRequests_, lanes_>>
       ELSE /\ QueuedCount < MaxQueue
            /\ pendingRequests_' = With(pendingRequests_, p, generation_)
            /\ lanes_' = IF p \in visiblePaths_
                         THEN SubmitFront(lanes_, Task(p, generation_), High)
                         ELSE Submit(lanes_, Task(p, generation_), Normal)
            /\ ret' = Return("queued", 0)
    /\ UNCHANGED <<thumbnailCache_, thumbnailCacheBytes_, persistSyncBudget_>>

RequestThumbnail(p) ==
    /\ rpc = "idle"
    /\ \/ RequestHit(p)
       \/ RequestSync(p)
       \/ RequestQueue(p)
    /\ UNCHANGED <<otherComponents, generation_, invalidateCalls, wk, tier2Cache_, tier2Bytes_,
                   thumbSaveBuffer_, persistVars, visiblePaths_, readyQueue_,
                   rpc>>

\* visiblePaths_ is replaced by the given paths.
SetVisibleRange(S) ==
    /\ rpc = "idle"
    /\ visiblePaths_' = S
    /\ ret' = Return("none", 0)
    /\ UNCHANGED <<otherComponents, generation_, invalidateCalls, poolVars, cacheVars, persistVars,
                   pendingRequests_, readyQueue_, persistSyncBudget_, rpc>>

\* An invalidation that leaves the generation counter as it is.
InvalidateBegin_NoIncrement ==
    /\ rpc = "idle"
    /\ invalidateCalls < MaxGen
    /\ invalidateCalls' = invalidateCalls + 1
    /\ rpc' = "inv_purgeNormal"
    /\ UNCHANGED <<otherComponents, generation_, poolVars, cacheVars, persistVars, pendingRequests_,
                   visiblePaths_, readyQueue_, persistSyncBudget_, ret>>

\* InvalidateRequests, one step per atomic access or lock acquisition.
InvalidateBegin ==
    /\ rpc = "idle"
    /\ invalidateCalls < MaxGen
    /\ generation_' = generation_ + 1
    /\ invalidateCalls' = invalidateCalls + 1
    /\ rpc' = "inv_purgeNormal"
    /\ UNCHANGED <<otherComponents, poolVars, cacheVars, persistVars,
                   pendingRequests_, visiblePaths_, readyQueue_,
                   persistSyncBudget_, ret>>

InvalidatePurgeNormal ==
    /\ rpc = "inv_purgeNormal"
    /\ lanes_' = PurgePriority(lanes_, Normal)
    /\ rpc' = "inv_purgeLow"
    /\ UNCHANGED <<otherComponents, generation_, invalidateCalls, wk, cacheVars, persistVars,
                   pendingRequests_, visiblePaths_, readyQueue_,
                   persistSyncBudget_, ret>>

InvalidatePurgeLow ==
    /\ rpc = "inv_purgeLow"
    /\ lanes_' = PurgePriority(lanes_, Low)
    /\ rpc' = "inv_clear"
    /\ UNCHANGED <<otherComponents, generation_, invalidateCalls, wk, cacheVars, persistVars,
                   pendingRequests_, visiblePaths_, readyQueue_,
                   persistSyncBudget_, ret>>

InvalidateClearPending ==
    /\ rpc = "inv_clear"
    /\ pendingRequests_' = EmptyMap
    /\ rpc' = "idle"
    /\ ret' = Return("cleared", Cardinality(DOMAIN pendingRequests_))
    /\ UNCHANGED <<otherComponents, generation_, invalidateCalls, poolVars, cacheVars, persistVars,
                   visiblePaths_, readyQueue_, persistSyncBudget_>>

InvalidateRequests ==
    \/ InvalidateBegin
    \/ InvalidatePurgeNormal
    \/ InvalidatePurgeLow
    \/ InvalidateClearPending

\* The paths PrefetchAround batches: offsets 1..radius around currentIndex,
\* forward then backward, those without a Tier-1 bitmap (HasThumbnail).
RECURSIVE PrefetchBatch(_, _, _, _)
PrefetchBatch(allPaths, idx, offset, radius) ==
    IF offset > radius THEN <<>>
    ELSE LET n == Len(allPaths)
             fwd == IF idx + offset < n
                       /\ allPaths[idx + offset + 1] \notin DOMAIN thumbnailCache_
                    THEN <<Task(allPaths[idx + offset + 1], generation_)>>
                    ELSE <<>>
             bwd == IF idx >= offset
                       /\ allPaths[idx - offset + 1] \notin DOMAIN thumbnailCache_
                    THEN <<Task(allPaths[idx - offset + 1], generation_)>>
                    ELSE <<>>
         IN fwd \o bwd \o PrefetchBatch(allPaths, idx, offset + 1, radius)

\* PrefetchAround(allPaths, currentIndex, radius): one SubmitBatch to the Low lane.
PrefetchAround(allPaths, idx, radius) ==
    /\ rpc = "idle"
    /\ LET batch == PrefetchBatch(allPaths, idx, 1, radius)
       IN /\ QueuedCount + Len(batch) <= MaxQueue
          /\ lanes_' = IF batch = <<>> THEN lanes_
                       ELSE SubmitBatch(lanes_, batch, Low)
    /\ ret' = Return("none", 0)
    /\ UNCHANGED <<otherComponents, generation_, invalidateCalls, wk, cacheVars, persistVars,
                   pendingRequests_, visiblePaths_, readyQueue_,
                   persistSyncBudget_, rpc>>

\* The upload loop of FlushReadyThumbnails over the popped batch: item i is
\* inserted into Tier 1 when CreateBitmap succeeds (oks[i]).
RECURSIVE UploadCache(_, _, _, _, _)
UploadCache(batch, oks, ties, i, cache) ==
    IF i > Len(batch) THEN cache
    ELSE UploadCache(batch, oks, ties, i + 1,
                     IF oks[i]
                     THEN Insert(cache, batch[i].path, batch[i].bytes, ties[i])
                     ELSE cache)

\* thumbnailCacheBytes_ += width * height * 4, for every bitmap created
RECURSIVE UploadBytes(_, _, _)
UploadBytes(batch, oks, i) ==
    IF i > Len(batch) THEN 0
    ELSE (IF oks[i] THEN batch[i].bytes ELSE 0) + UploadBytes(batch, oks, i + 1)

\* FlushReadyThumbnails(maxCount) up to the call of EvictThumbnailsIfNeeded.
FlushReadyThumbnails(maxCount) ==
    /\ rpc = "idle"
    /\ persistSyncBudget_' = PersistSyncBudgetPerFrame
    /\ LET count == Min(maxCount, Len(readyQueue_))
           batch == SubSeq(readyQueue_, 1, count)
       IN /\ readyQueue_' = SubSeq(readyQueue_, count + 1, Len(readyQueue_))
          /\ \E oks \in [1..count -> BOOLEAN], ties \in [1..count -> BOOLEAN] :
               LET made == {i \in 1..count : oks[i]}
               IN /\ thumbnailCacheBytes_ + UploadBytes(batch, oks, 1) <= MaxTracked
                  /\ thumbnailCache_' = UploadCache(batch, oks, ties, 1, thumbnailCache_)
                  /\ thumbnailCacheBytes_' =
                         thumbnailCacheBytes_ + UploadBytes(batch, oks, 1)
                  /\ thumbSaveBuffer_' =
                         thumbSaveBuffer_ \cup {batch[i].path : i \in made}
                  /\ ret' = Return("flush", Cardinality(made))
                  /\ rpc' = IF made = {} THEN "idle" ELSE "flush_evict"
    /\ UNCHANGED <<otherComponents, generation_, invalidateCalls, poolVars, tier2Cache_, tier2Bytes_,
                   persistVars, pendingRequests_, visiblePaths_>>

\* ------------------------------------- ImagePipeline::EvictThumbnailsIfNeeded

\* Evict to 75% of budget to avoid thrashing.
targetBytes == (ThumbnailCacheMaxBytes * 3) \div 4

\* Candidates gathered without the visible-set filter.
EvictCandidates_All(cache, visible) == DOMAIN cache

\* "Never evict visible thumbnails": the Tier-1 entries gathered as candidates.
EvictCandidates(cache, visible) == {p \in DOMAIN cache : p \notin visible}

\* The candidates sorted the other way round, newest lastAccess first.
SortedByLastAccess_NewestFirst(cache, cands) ==
    {ord \in [1..Cardinality(cands) -> cands] :
        /\ \A i, j \in 1..Cardinality(cands) : i # j => ord[i] # ord[j]
        /\ \A i, j \in 1..Cardinality(cands) :
               i < j => cache[ord[i]].lastAccess >= cache[ord[j]].lastAccess}

\* The orders std::sort may leave the candidates in: oldest lastAccess first,
\* entries of equal lastAccess in either order.
SortedByLastAccess(cache, cands) ==
    {ord \in [1..Cardinality(cands) -> cands] :
        /\ \A i, j \in 1..Cardinality(cands) : i # j => ord[i] # ord[j]
        /\ \A i, j \in 1..Cardinality(cands) :
               i < j => cache[ord[i]].lastAccess <= cache[ord[j]].lastAccess}

\* thumbnailCacheBytes_ -= c.bytes, saturating at 0
SatSub(a, b) == IF a >= b THEN a - b ELSE 0

\* An eviction loop that stops at the ceiling instead of the 75% target.
RECURSIVE EvictLoop_ToCeiling(_, _, _, _)
EvictLoop_ToCeiling(ord, i, cache, bytes) ==
    IF i > Len(ord) \/ bytes <= ThumbnailCacheMaxBytes
    THEN [n |-> i - 1, bytes |-> bytes]
    ELSE EvictLoop_ToCeiling(ord, i + 1, cache, SatSub(bytes, cache[ord[i]].bytes))

\* The eviction loop from candidate i on: how many candidates are erased in
\* all (n) and the tracked bytes left.
RECURSIVE EvictLoop(_, _, _, _)
EvictLoop(ord, i, cache, bytes) ==
    IF i > Len(ord) \/ bytes <= targetBytes
    THEN [n |-> i - 1, bytes |-> bytes]
    ELSE EvictLoop(ord, i + 1, cache, SatSub(bytes, cache[ord[i]].bytes))

\* The evicted entries queued for Tier-2 demotion.
DemoteList(evicted) ==
    {p \in evicted : p \notin DOMAIN tier2Cache_ /\ tier2Bytes_ < kTier2MaxBytes}

RECURSIVE SumCompressed(_)
SumCompressed(S) ==
    IF S = {} THEN 0
    ELSE LET p == CHOOSE q \in S : TRUE
         IN CompressedBytes(p) + SumCompressed(S \ {p})

\* EvictThumbnailsIfNeeded, the whole function under cacheMutex_ (called by
\* FlushReadyThumbnails when it created a bitmap).
EvictThumbnailsIfNeeded ==
    /\ rpc = "flush_evict"
    /\ IF thumbnailCacheBytes_ <= ThumbnailCacheMaxBytes
       THEN /\ ret' = Return("within", 0)
            /\ UNCHANGED <<thumbnailCache_, thumbnailCacheBytes_, tier2Cache_,
                           tier2Bytes_>>
       ELSE \E ord \in SortedByLastAccess(thumbnailCache_,
                           EvictCandidates(thumbnailCache_, visiblePaths_)) :
              LET r == EvictLoop(ord, 1, thumbnailCache_, thumbnailCacheBytes_)
                  evicted == {ord[i] : i \in 1..r.n}
                  withPixels == DemoteList(evicted) \cap thumbSaveBuffer_
              IN /\ ret' = Return("evicted", r.n)
                 /\ thumbnailCache_' = Normalize(Without(thumbnailCache_, evicted))
                 /\ thumbnailCacheBytes_' = r.bytes
                 /\ \E compressed \in SUBSET withPixels :   \* CompressPixels succeeded
                      /\ tier2Cache_' =
                           [q \in DOMAIN tier2Cache_ \cup compressed |->
                               IF q \in compressed THEN CompressedBytes(q)
                               ELSE tier2Cache_[q]]
                      /\ tier2Bytes_' = tier2Bytes_ + SumCompressed(compressed)
    /\ rpc' = "idle"
    /\ UNCHANGED <<otherComponents, generation_, invalidateCalls, poolVars, thumbSaveBuffer_,
                   persistVars, pendingRequests_, visiblePaths_, readyQueue_,
                   persistSyncBudget_>>

\* ------------------------------------------ ImagePipeline::LoadPersistentThumbs

\* The load thread parses the cache file and fills the index (unique lock).
LoadPersistentThumbs ==
    /\ ~persistLoaded
    /\ persistLoaded' = TRUE
    /\ persistIndex_' = persistIndex_ \cup CacheFilePaths
    /\ UNCHANGED <<otherComponents, generation_, invalidateCalls, poolVars, cacheVars,
                   pendingRequests_, visiblePaths_, readyQueue_,
                   persistSyncBudget_, rpc, ret>>

\* ------------------------------------------------------------------- Next

\* The pool's workers W draining the lanes and running their decode tasks.
Pool(W) ==
    \/ \E w \in W : Dequeue(w)
    \/ \E w \in W : ThumbnailDecodeTask(w)

\* The request/flush protocol: the render loop requests the thumbnails of the
\* gallery's cells, flushes once per frame and invalidates on fast scroll; the
\* load thread maps the persistent cache; one worker decodes.
Next ==
    \/ \E p \in {"a", "b"} : RequestThumbnail(p)
    \/ \E n \in 0..MaxFlush : FlushReadyThumbnails(n)
    \/ EvictThumbnailsIfNeeded
    \/ InvalidateRequests
    \/ \E S \in {{}, {"a"}} : SetVisibleRange(S)
    \/ LoadPersistentThumbs
    \/ Pool(Workers)

Spec == Init /\ [][Next]_vars

\* The three lanes: requests for visible and non-visible cells, prefetch
\* batches and invalidation, with one worker draining; nothing is flushed.
NextLanes ==
    \/ \E p \in {"a", "b"} : RequestThumbnail(p)
    \/ InvalidateRequests
    \/ \E S \in {{}, {"a"}} : SetVisibleRange(S)
    \/ \E idx \in 0..1, radius \in 1..PrefetchRadius :
           PrefetchAround(<<"a", "b">>, idx, radius)
    \/ Pool(Workers)

SpecLanes == Init /\ [][NextLanes]_vars

\* Eviction: three thumbnails that together exceed the Tier-1 ceiling, and
\* visible sets from none to all of them; no invalidation.
NextEvict ==
    \/ \E p \in Paths : RequestThumbnail(p)
    \/ \E n \in 0..MaxFlush : FlushReadyThumbnails(n)
    \/ EvictThumbnailsIfNeeded
    \/ \E S \in {{}, {"a"}, Paths} : SetVisibleRange(S)
    \/ LoadPersistentThumbs
    \/ Pool(Workers)

SpecEvict == Init /\ [][NextEvict]_vars

\* ------------------------------------------------------------- properties

\* InvalidateRequests has returned since a task captured generation gen.
InvalidatedSince(gen) ==
    gen < generation_ /\ rpc \notin {"inv_purgeNormal", "inv_purgeLow", "inv_clear"}

\* C1: a decode task that started before a call of InvalidateRequests and
\* completes after the call returned is discarded: it never appends its
\* result to the ready queue.
C1_StaleResultDiscarded ==
    [][\A w \in Workers :
          (wk[w].pc # "idle" /\ InvalidatedSince(wk[w].gen))
              => ~(wk'[w].pc = "idle" /\ Len(readyQueue_') = Len(readyQueue_) + 1)]_vars

\* The pending table holds the path with the current value of the counter.
RecordedPending(p) ==
    \E q \in DOMAIN pendingRequests_ : q = p /\ pendingRequests_[q] = generation_

\* C2 as stated: a RequestThumbnail for a path already pending at the current
\* generation submits nothing to the pool and returns null.
C2_PendingRequestReturnsNull ==
    [][\A p \in Paths :
          (RecordedPending(p) /\ RequestThumbnail(p))
              => (lanes_' = lanes_ /\ ReturnedNull(ret'))]_vars

\* C2, amended: while the generation counter is unchanged a path stays
\* pending, and a RequestThumbnail for a path pending at the current
\* generation submits nothing to the pool; it returns null unless the path
\* is in Tier 1 or the synchronous Tier-3 path serves it.
C2_PendingRequestSubmitsNothing ==
    [][\A p \in Paths :
          /\ (RecordedPending(p) /\ generation_' = generation_)
                 => (p \in DOMAIN pendingRequests_'
                     /\ pendingRequests_'[p] = generation_')
          /\ (RecordedPending(p) /\ RequestThumbnail(p))
                 => /\ lanes_' = lanes_
                    /\ ReturnedNull(ret') \/ ReturnedBitmap(ret')
                    /\ ReturnedBitmap(ret') =>
                           \/ p \in DOMAIN thumbnailCache_
                           \/ (p \in persistIndex_ /\ persistSyncBudget_ > 0)
                    /\ p \in DOMAIN thumbnailCache_ => ReturnedBitmap(ret')
                    /\ (p \notin DOMAIN thumbnailCache_
                        /\ (p \notin persistIndex_ \/ persistSyncBudget_ = 0))
                           => ReturnedNull(ret')]_vars

\* A request for a pending path has just been suppressed and returned null.
C2_Witness ==
    /\ ret.site = "pending"
    /\ \E p \in Paths : RecordedPending(p) /\ p \notin DOMAIN thumbnailCache_

\* No operation is in progress: the render thread is between calls, the
\* workers are idle, and nothing waits in a lane or in the ready queue.
Settled ==
    /\ rpc = "idle"
    /\ \A w \in Workers : wk[w].pc = "idle"
    /\ QueuedCount = 0
    /\ readyQueue_ = <<>>

\* C3: in a settled state a path is in at most one of: Tier 1, Tier 2, the
\* pending table at the current generation.
C3_AtMostOnePlace ==
    Settled =>
        \A p \in Paths :
            Cardinality({k \in {"tier1", "tier2", "pending"} :
                \/ k = "tier1" /\ p \in DOMAIN thumbnailCache_
                \/ k = "tier2" /\ p \in DOMAIN tier2Cache_
                \/ k = "pending" /\ RecordedPending(p)}) <= 1

\* The step is a call of EvictThumbnailsIfNeeded that found the tracked
\* bytes above the ceiling.
EvictionRuns ==
    /\ rpc = "flush_evict"
    /\ rpc' = "idle"
    /\ thumbnailCacheBytes_ > ThumbnailCacheMaxBytes

\* The Tier-1 entries the step erases.
Erased == DOMAIN thumbnailCache_ \ DOMAIN thumbnailCache_'

\* C4: eviction never removes a Tier-1 entry whose path is in the visible
\* set, however far the tracked bytes exceed the ceiling.
C4_VisibleNeverEvicted ==
    [][EvictionRuns => Erased \cap visiblePaths_ = {}]_vars

\* An eviction has just erased entries and left a visible one in Tier 1.
C4_Witness ==
    /\ ret.site = "evicted"
    /\ ret.n >= 1
    /\ visiblePaths_ \cap DOMAIN thumbnailCache_ # {}

C6_ShortestOldestPrefix ==
    [][EvictionRuns =>
          LET cands == DOMAIN thumbnailCache_ \ visiblePaths_
              left(S) == thumbnailCacheBytes_ - SumBytes(thumbnailCache_, S)
          IN /\ Erased \subseteq cands
             /\ \A p \in Erased, q \in cands \ Erased :
                    thumbnailCache_[p].lastAccess <= thumbnailCache_[q].lastAccess
             /\ thumbnailCacheBytes_' = left(Erased)
             /\ cands \ Erased # {} => left(Erased) <= targetBytes
             /\ Erased # {} =>
                    \E p \in Erased :
                        /\ \A q \in Erased : thumbnailCache_[q].lastAccess
                                                 <= thumbnailCache_[p].lastAccess
                        /\ left(Erased \ {p}) > targetBytes]_vars

\* An eviction has just stopped at the target with a non-visible entry left.
C6_Witness ==
    /\ ret.site = "evicted"
    /\ ret.n >= 1
    /\ thumbnailCacheBytes_ <= targetBytes
    /\ DOMAIN thumbnailCache_ \ visiblePaths_ # {}
    /\ visiblePaths_ = {}

\* C7: after N calls of InvalidateRequests the generation counter is its
\* initial value (0) plus N, and no step other than the fetch_add that
\* begins InvalidateRequests changes it.
C7_GenerationCountsInvalidations ==
    [][/\ generation_ = invalidateCalls
       /\ generation_' = invalidateCalls'
       /\ generation_' # generation_
             => (rpc = "idle" /\ rpc' = "inv_purgeNormal"
                 /\ generation_' = generation_ + 1)]_vars

\* A call of InvalidateRequests has returned.
C7_Witness ==
    /\ ret.site = "cleared"
    /\ invalidateCalls >= 1
    /\ generation_ >= 1

\* The render thread is inside InvalidateRequests.
Invalidating(pc) == pc \in {"inv_purgeNormal", "inv_purgeLow", "inv_clear"}

\* The task is queued in one of the lanes.
Queued(ls, t) ==
    \E i \in 0..(kLaneCount - 1) : \E k \in 1..Len(ls[i]) : ls[i][k] = t

PoolDrained == QueuedCount = 0 /\ \A w \in Workers : wk[w].pc = "idle"

\* The path has decoded pixels waiting in the ready queue.
InReadyQueue(p) == \E i \in 1..Len(readyQueue_) : readyQueue_[i].path = p

C10_StrictPriorityDequeue ==
    [][\A w \in Workers :
          (wk[w].pc = "idle" /\ wk'[w].pc # "idle")
              => LET i == wk'[w].lane
                 IN /\ i \in 0..(kLaneCount - 1)
                    /\ \A j \in 0..(i - 1) : lanes_[j] = <<>>
                    /\ lanes_[i] # <<>>
                    /\ Task(wk'[w].path, wk'[w].gen) = Head(lanes_[i])
                    /\ lanes_' = [lanes_ EXCEPT ![i] = Tail(lanes_[i])]]_vars

\* A worker has just taken a task from the Low lane.
C10_Witness ==
    \E w \in Workers : wk[w].pc = "gen1" /\ wk[w].lane = Low

\* Invalidation with all three lanes in use and results flushed: requests
\* and prefetches for one cell, visible or not.
NextInvalidate ==
    \/ RequestThumbnail("a")
    \/ \E radius \in 1..PrefetchRadius : PrefetchAround(<<"a", "b">>, 1, radius)
    \/ \E S \in {{}, {"a"}} : SetVisibleRange(S)
    \/ InvalidateRequests
    \/ \E n \in 0..MaxFlush : FlushReadyThumbnails(n)
    \/ EvictThumbnailsIfNeeded
    \/ Pool(Workers)

SpecInvalidate == Init /\ [][NextInvalidate]_vars

\* --------------------------------------------- ThreadPool: idle accounting

\* pending_ and active_ are uint32 and wrap; the model wraps them at
\* CounterModulus, far above any count the bounds allow, because the
\* checker's integers end below 2^32.  A value near CounterModulus is a
\* counter that went below zero.
CounterModulus == 1073741824

\* fetch_add and fetch_sub on a wrapping counter
FetchAdd(c, n) == (c + n) % CounterModulus
FetchSub(c, n) == (c + CounterModulus - n) % CounterModulus

\* The n-th closure handed to the pool.
PoolTask(n) == Task(ToString(n), 0)

\* Every queue cleared.
PurgeAll(ls) == [i \in DOMAIN ls |-> <<>>]

\* The tasks queued in the lanes of scope.
QueuedIn(ls, scope) == {ls[i][k] : <<i, k>> \in {ik \in scope \X (1..MaxSubmits) :
                                                    ik[2] <= Len(ls[ik[1]])}}

ClientIdle == [pc |-> "idle", n |-> 0]

\* idleCV_.notify_all(): the thread blocked in the wait is made runnable.
NotifyAll(wt) == IF wt = "blocked" THEN "woken" ELSE wt

\* Submit(fn, p) to the end of its lock_guard block.
PoolSubmit(p) ==
    /\ cl.pc = "idle"
    /\ mutex_ = "free"
    /\ submitted < MaxSubmits
    /\ lanes_' = Submit(lanes_, PoolTask(submitted + 1), p)
    /\ submitted' = submitted + 1
    /\ cl' = [pc |-> "count", n |-> 1]
    /\ UNCHANGED <<pending_, active_, mutex_, waiter, frontTasks, purgedTasks,
                   wk, outsidePool>>

\* SubmitFront(fn, p) to the end of its lock_guard block.
PoolSubmitFront(p) ==
    /\ cl.pc = "idle"
    /\ mutex_ = "free"
    /\ submitted < MaxSubmits
    /\ lanes_' = SubmitFront(lanes_, PoolTask(submitted + 1), p)
    /\ submitted' = submitted + 1
    /\ frontTasks' = frontTasks \cup {PoolTask(submitted + 1)}
    /\ cl' = [pc |-> "count", n |-> 1]
    /\ UNCHANGED <<pending_, active_, mutex_, waiter, purgedTasks, wk,
                   outsidePool>>

\* SubmitBatch(fns, p) with count closures, to the end of its lock_guard block.
PoolSubmitBatch(count, p) ==
    /\ cl.pc = "idle"
    /\ mutex_ = "free"
    /\ count >= 1
    /\ submitted + count <= MaxSubmits
    /\ lanes_' = SubmitBatch(lanes_, [k \in 1..count |-> PoolTask(submitted + k)], p)
    /\ submitted' = submitted + count
    /\ cl' = [pc |-> "count", n |-> count]
    /\ UNCHANGED <<pending_, active_, mutex_, waiter, frontTasks, purgedTasks,
                   wk, outsidePool>>

\* pending_.fetch_add(count) after the lock is released; cv_.notify wakes a
\* worker, which here polls TryDequeue.
PoolCount ==
    /\ cl.pc = "count"
    /\ pending_' = FetchAdd(pending_, cl.n)
    /\ cl' = ClientIdle
    /\ UNCHANGED <<active_, mutex_, waiter, submitted, frontTasks, purgedTasks,
                   poolVars, outsidePool>>

\* PurgeAll takes mutex_ and clears every lane.
PoolPurgeAll ==
    /\ cl.pc = "idle"
    /\ mutex_ = "free"
    /\ mutex_' = "client"
    /\ lanes_' = PurgeAll(lanes_)
    /\ purgedTasks' = purgedTasks \cup QueuedIn(lanes_, 0..(kLaneCount - 1))
    /\ cl' = [pc |-> "cas", n |-> QueuedCount]
    /\ UNCHANGED <<pending_, active_, waiter, submitted, frontTasks, wk,
                   outsidePool>>

\* PurgePriority(p) takes mutex_ and clears lane p.
PoolPurgePriority(p) ==
    /\ cl.pc = "idle"
    /\ mutex_ = "free"
    /\ mutex_' = "client"
    /\ lanes_' = PurgePriority(lanes_, p)
    /\ purgedTasks' = purgedTasks \cup QueuedIn(lanes_, {p})
    /\ cl' = [pc |-> "cas", n |-> Len(lanes_[p])]
    /\ UNCHANGED <<pending_, active_, waiter, submitted, frontTasks, wk,
                   outsidePool>>

\* The compare-exchange loop of a purge: pending_ less the purged count,
\* saturating at 0, left alone when it reads 0.
PurgeAdjustPending ==
    /\ cl.pc = "cas"
    /\ pending_' = IF pending_ > 0 THEN SatSub(pending_, cl.n) ELSE pending_
    /\ cl' = [cl EXCEPT !.pc = "loadP"]
    /\ UNCHANGED <<active_, mutex_, waiter, submitted, frontTasks, purgedTasks,
                   poolVars, outsidePool>>

\* if (pending_.load() == 0 && ...: the first load of a purge's wake-up test.
PurgeLoadPending ==
    /\ cl.pc = "loadP"
    /\ IF pending_ = 0
       THEN cl' = [cl EXCEPT !.pc = "loadA"] /\ UNCHANGED mutex_
       ELSE cl' = ClientIdle /\ mutex_' = "free"
    /\ UNCHANGED <<pending_, active_, waiter, submitted, frontTasks, purgedTasks,
                   poolVars, outsidePool>>

\* ... && active_.load() == 0) idleCV_.notify_all(); and the purge returns.
PurgeLoadActive ==
    /\ cl.pc = "loadA"
    /\ waiter' = IF active_ = 0 THEN NotifyAll(waiter) ELSE waiter
    /\ cl' = ClientIdle
    /\ mutex_' = "free"
    /\ UNCHANGED <<pending_, active_, submitted, frontTasks, purgedTasks,
                   poolVars, outsidePool>>

workerStepOnly == <<lanes_, mutex_, cl, submitted, frontTasks, purgedTasks,
                    outsidePool>>

\* A worker's TryDequeue succeeds.
PoolDequeue(w) ==
    /\ wk[w].pc = "idle"
    /\ mutex_ = "free"
    /\ TryDequeue(lanes_) # -1
    /\ LET i == TryDequeue(lanes_)
           t == Head(lanes_[i])
       IN /\ lanes_' = [lanes_ EXCEPT ![i] = Tail(@)]
          /\ wk' = [wk EXCEPT ![w] = [pc |-> "psub", path |-> t.path,
                                      gen |-> t.gen, lane |-> i]]
    /\ UNCHANGED <<tpVars, outsidePool>>

\* executeTask: pending_.fetch_sub(1)
ExecPendingSub(w) ==
    /\ wk[w].pc = "psub"
    /\ pending_' = FetchSub(pending_, 1)
    /\ wk' = [wk EXCEPT ![w].pc = "aadd"]
    /\ UNCHANGED <<workerStepOnly, active_, waiter>>

\* executeTask: active_.fetch_add(1)
ExecActiveAdd(w) ==
    /\ wk[w].pc = "aadd"
    /\ active_' = FetchAdd(active_, 1)
    /\ wk' = [wk EXCEPT ![w].pc = "run"]
    /\ UNCHANGED <<workerStepOnly, pending_, waiter>>

\* executeTask: task.fn() runs to its end.
ExecRun(w) ==
    /\ wk[w].pc = "run"
    /\ wk' = [wk EXCEPT ![w].pc = "asub"]
    /\ UNCHANGED <<workerStepOnly, pending_, active_, waiter>>

\* executeTask: active_.fetch_sub(1)
ExecActiveSub(w) ==
    /\ wk[w].pc = "asub"
    /\ active_' = FetchSub(active_, 1)
    /\ wk' = [wk EXCEPT ![w].pc = "chkP"]
    /\ UNCHANGED <<workerStepOnly, pending_, waiter>>

\* executeTask: if (pending_.load() == 0 && ...
ExecLoadPending(w) ==
    /\ wk[w].pc = "chkP"
    /\ wk' = [wk EXCEPT ![w] = IF pending_ = 0 THEN [@ EXCEPT !.pc = "chkA"]
                                ELSE IdleWorker]
    /\ UNCHANGED <<workerStepOnly, pending_, active_, waiter>>

\* executeTask: ... && active_.load() == 0)
ExecLoadActive(w) ==
    /\ wk[w].pc = "chkA"
    /\ wk' = [wk EXCEPT ![w] = IF active_ = 0 THEN [@ EXCEPT !.pc = "notify"]
                                ELSE IdleWorker]
    /\ UNCHANGED <<workerStepOnly, pending_, active_, waiter>>

\* executeTask: idleCV_.notify_all(), without mutex_.
ExecNotify(w) ==
    /\ wk[w].pc = "notify"
    /\ waiter' = NotifyAll(waiter)
    /\ wk' = [wk EXCEPT ![w] = IdleWorker]
    /\ UNCHANGED <<workerStepOnly, pending_, active_>>

executeTask(w) ==
    \/ ExecPendingSub(w)
    \/ ExecActiveAdd(w)
    \/ ExecRun(w)
    \/ ExecActiveSub(w)
    \/ ExecLoadPending(w)
    \/ ExecLoadActive(w)
    \/ ExecNotify(w)

waiterStepOnly == <<pending_, active_, cl, submitted, frontTasks, purgedTasks,
                    poolVars, outsidePool>>

\* WaitIdle takes mutex_: on entry, and again when the wait is woken.
WaitIdleLock ==
    /\ waiter \in {"out", "returned", "woken"}
    /\ mutex_ = "free"
    /\ mutex_' = "waiter"
    /\ waiter' = "loadP"
    /\ UNCHANGED waiterStepOnly

\* The wait's predicate: pending_.load() == 0 && ...
WaitLoadPending ==
    /\ waiter = "loadP"
    /\ waiter' = IF pending_ = 0 THEN "loadA" ELSE "sleep"
    /\ UNCHANGED <<waiterStepOnly, mutex_>>

\* ... && active_.load() == 0: WaitIdle returns when it holds.
WaitLoadActive ==
    /\ waiter = "loadA"
    /\ IF active_ = 0
       THEN waiter' = "returned" /\ mutex_' = "free"
       ELSE waiter' = "sleep" /\ UNCHANGED mutex_
    /\ UNCHANGED waiterStepOnly

\* The predicate was false: the wait releases mutex_ and blocks.
WaitBlock ==
    /\ waiter = "sleep"
    /\ waiter' = "blocked"
    /\ mutex_' = "free"
    /\ UNCHANGED waiterStepOnly

\* A condition variable may wake without a notification.
WaitSpuriousWake ==
    /\ waiter = "blocked"
    /\ waiter' = "woken"
    /\ UNCHANGED <<waiterStepOnly, mutex_>>

WaitIdle ==
    \/ WaitIdleLock
    \/ WaitLoadPending
    \/ WaitLoadActive
    \/ WaitBlock
    \/ WaitSpuriousWake

\* The pool alone: one thread submits and purges, the workers execute, one
\* thread calls WaitIdle.
NextPool ==
    \/ \E p \in {High, Normal, Low} : PoolSubmit(p)
    \/ \E p \in {High, Normal, Low} : PoolSubmitFront(p)
    \/ \E count \in 1..2, p \in {High, Normal, Low} : PoolSubmitBatch(count, p)
    \/ PoolCount
    \/ PoolPurgeAll
    \/ \E p \in {High, Normal, Low} : PoolPurgePriority(p)
    \/ PurgeAdjustPending
    \/ PurgeLoadPending
    \/ PurgeLoadActive
    \/ \E w \in Workers : PoolDequeue(w)
    \/ \E w \in Workers : executeTask(w)
    \/ WaitIdle

SpecPool == Init /\ [][NextPool]_vars

\* ------------------------------------------------------------------ C11

\* The place of a closure in the order of submission.
SubmissionOrder(t) == CHOOSE n \in 1..MaxSubmits : PoolTask(n) = t

\* Worker w takes a task out of a lane in this step.
Dequeues(w) == wk[w].pc = "idle" /\ wk'[w].pc = "psub"

\* C11: within one lane the tasks pushed by Submit and SubmitBatch are
\* dequeued in the order of their submission, and a task pushed by SubmitFront
\* is dequeued before every task that was in the lane when it was pushed.
\* Stated at each dequeue of a task u from lane i, over every task t that stays
\* behind in lane i: if both were pushed to the back, u was submitted first; and
\* t is not a SubmitFront task submitted after u.
C11_LaneOrder ==
    [][\A w \in Workers : Dequeues(w) =>
          LET u == Task(wk'[w].path, wk'[w].gen)
              i == wk'[w].lane
          IN \A k \in 1..Len(lanes_'[i]) :
                LET t == lanes_'[i][k]
                IN /\ (u \notin frontTasks /\ t \notin frontTasks)
                          => SubmissionOrder(u) < SubmissionOrder(t)
                   /\ t \in frontTasks
                          => SubmissionOrder(t) < SubmissionOrder(u)]_vars

\* A SubmitFront task has been dequeued ahead of two tasks submitted before it
\* with Submit or SubmitBatch, which wait in its lane in their order.
C11_Witness ==
    \E w \in Workers :
        /\ wk[w].pc = "psub"
        /\ Task(wk[w].path, wk[w].gen) \in frontTasks
        /\ lanes_[wk[w].lane] = <<PoolTask(1), PoolTask(2)>>
        /\ frontTasks = {PoolTask(3)}

\* ------------------------------------------------------------------ C12

\* The client's call is PurgeAll or PurgePriority, at its clear.
PurgeClears == cl.pc = "idle" /\ cl'.pc = "cas"

\* The task worker w has taken and not finished.
Started(w) == wk[w].pc \in {"psub", "aadd", "run", "asub"}

\* C12: PurgeAll and PurgePriority(p) drop every task of their scope that has
\* not started, and none of them is ever executed; a task that has started
\* keeps running; PurgePriority(p) leaves the other two lanes as they are.
\* Stated over every step: a purge step empties exactly the lanes of its scope,
\* keeps every other lane and every worker as it was, and every task it found
\* queued is recorded in purgedTasks; no task of purgedTasks is in a lane or
\* taken by a worker after any step; and a started task's worker moves only
\* through executeTask.
C12_PurgeDropsQueuedOnly ==
    [][/\ PurgeClears =>
            /\ wk' = wk
            /\ \E scope \in {{High}, {Normal}, {Low}, {High, Normal, Low}} :
                  /\ \A i \in scope : lanes_'[i] = <<>>
                  /\ \A i \in {High, Normal, Low} \ scope : lanes_'[i] = lanes_[i]
                  /\ QueuedIn(lanes_, scope) \subseteq purgedTasks'
                  /\ cl'.n = Cardinality(QueuedIn(lanes_, scope))
       /\ \A t \in purgedTasks' :
            /\ t \notin QueuedIn(lanes_', {High, Normal, Low})
            /\ \A w \in Workers : Started(w)' => Task(wk'[w].path, wk'[w].gen) # t
       /\ \A w \in Workers :
            (Started(w) /\ wk'[w] # wk[w]) =>
                /\ wk'[w].path = wk[w].path
                /\ <<wk[w].pc, wk'[w].pc>> \in {<<"psub", "aadd">>, <<"aadd", "run">>,
                                                <<"run", "asub">>, <<"asub", "chkP">>}]_vars

\* PurgePriority(Normal) has dropped a queued task while a task was running
\* and another lane held a task, which is still there.
C12_Witness ==
    /\ cl.pc = "cas"
    /\ cl.n = 1
    /\ lanes_[Normal] = <<>>
    /\ lanes_[Low] # <<>>
    /\ purgedTasks # {}
    /\ \E w \in Workers : wk[w].pc = "run"

\* ------------------------------------------------------------------ C13

\* Every lane is empty, no worker has a task, and no call of Submit,
\* SubmitFront, SubmitBatch, PurgeAll or PurgePriority is in progress.
Quiescent ==
    /\ \A i \in {High, Normal, Low} : lanes_[i] = <<>>
    /\ \A w \in Workers : wk[w].pc = "idle"
    /\ cl.pc = "idle"

\* The scheduler runs every thread that can take a step: a call of Submit,
\* SubmitFront, SubmitBatch, PurgeAll or PurgePriority that has begun comes to
\* its end, a worker takes a queued task and carries it through, and a thread
\* in WaitIdle that can go on does.  Nothing obliges a client to submit, nor a
\* condition variable to wake without a notification.
PoolFairness ==
    /\ WF_vars(PoolCount \/ PurgeAdjustPending \/ PurgeLoadPending \/ PurgeLoadActive)
    /\ \A w \in Workers : WF_vars(PoolDequeue(w) \/ executeTask(w))
    /\ WF_vars(WaitIdleLock \/ WaitLoadPending \/ WaitLoadActive \/ WaitBlock)

FairSpecPool == SpecPool /\ PoolFairness

\* C13: once every lane is empty, no task is running and nothing more is
\* submitted, every thread blocked in WaitIdle eventually returns: a pool that
\* stays quiescent for ever does not keep a thread blocked in the wait of
\* WaitIdle for ever.
C13_WaitIdleReturns == <>[]Quiescent => ~<>[](waiter = "blocked")

\* ------------------------------------- persistent thumbnail file: format

\* Little-endian fields, as memcpy and fwrite lay them out.
U16(n) == <<n % 256, (n \div 256) % 256>>
U32(n) == <<n % 256, (n \div 256) % 256, (n \div 65536) % 256, (n \div 16777216) % 256>>
ReadU16(data, offset) == data[offset + 1] + 256 * data[offset + 2]
ReadU32(data, offset) ==
    data[offset + 1] + 256 * data[offset + 2] + 65536 * data[offset + 3]
        + 16777216 * data[offset + 4]

Zeros(n) == [i \in 1..n |-> 0]

RECURSIVE Flatten(_)
Flatten(ss) == IF ss = <<>> THEN <<>> ELSE Head(ss) \o Flatten(Tail(ss))

\* path.wstring(): the UTF-16 code units of a path.
WString(p) ==
    CASE p = "a" -> <<97>>
      [] p = "b" -> <<98>>
      [] p = "c" -> <<99>>
      [] p = "bc" -> <<98, 99>>
      [] OTHER -> <<63>>

\* std::filesystem::path(std::wstring(pathChars, pathLen))
PathOfChars(chars) ==
    IF \E p \in {"a", "b", "c", "bc"} : WString(p) = chars
    THEN CHOOSE p \in {"a", "b", "c", "bc"} : WString(p) = chars
    ELSE "?"

\* "UIVT"
ThumbMagic == <<85, 73, 86, 84>>

\* uint8_t header[32]: magic, version 1, totalEntries, zeros
Header(totalEntries) == ThumbMagic \o U32(1) \o U32(totalEntries) \o Zeros(20)

\* A writeEntry that writes the height field before the width field.
writeEntry_HeightFirst(path, w, h, pixels) ==
    U16(Len(WString(path))) \o U16(h) \o U16(w) \o U16(0)
        \o Flatten([k \in 1..Len(WString(path)) |-> U16(WString(path)[k])])
        \o SubSeq(pixels, 1, w * h * 4)

\* The six fwrite calls of writeEntry.
writeEntry(path, w, h, pixels) ==
    U16(Len(WString(path))) \o U16(w) \o U16(h) \o U16(0)
        \o Flatten([k \in 1..Len(WString(path)) |-> U16(WString(path)[k])])
        \o SubSeq(pixels, 1, w * h * 4)

\* A magic test that accepts every file.
HeaderMagicOk_Any(data) == TRUE

\* memcmp(data, "UIVT", 4) == 0
HeaderMagicOk(data) == SubSeq(data, 1, 4) = ThumbMagic

\* version == 1
HeaderVersionOk(data) == ReadU32(data, 4) = 1

\* The loop of LoadPersistentThumbs over the records: entry i at offset, the
\* index built so far; each break returns what was indexed before it.
\* pixelData is the offset of the pixels in the mapped view.
RECURSIVE ParseEntries(_, _, _, _, _)
ParseEntries(data, i, entryCount, offset, index) ==
    IF i >= entryCount \/ offset + 8 > Len(data) THEN index
    ELSE LET pathLen == ReadU16(data, offset)
             w == ReadU16(data, offset + 2)
             h == ReadU16(data, offset + 4)
             pathBytes == pathLen * 2
         IN IF offset + 8 + pathBytes > Len(data) THEN index
            ELSE LET chars == [k \in 1..pathLen |->
                                   ReadU16(data, offset + 8 + 2 * (k - 1))]
                     pixels == offset + 8 + pathBytes
                     pixelSize == w * h * 4
                 IN IF pixels + pixelSize > Len(data) THEN index
                    ELSE ParseEntries(data, i + 1, entryCount, pixels + pixelSize,
                             With(index, PathOfChars(chars),
                                  [pixelData |-> pixels, width |-> w, height |-> h]))

\* The bytes an index entry points at.
PixelsAt(view, info) ==
    SubSeq(view, info.pixelData + 1, info.pixelData + info.width * info.height * 4)

\* ------------------------------------- persistent thumbnail file: inputs

\* A ThumbSaveEntry of w x h pixels.
Thumb(w, h, seed) ==
    [width |-> w, height |-> h, pixels |-> [i \in 1..(w * h * 4) |-> (seed + i) % 256]]

ThumbInputs == {Thumb(1, 1, 10), Thumb(2, 1, 250)}

\* The save buffers a session can have accumulated.
SaveBufferInputs ==
    UNION {[S -> ThumbInputs] : S \in SUBSET {"a", "bc"}}

\* The file an earlier session saved: records for "bc" and "c".
OldFile ==
    Header(2) \o writeEntry("bc", 1, 1, Thumb(1, 1, 100).pixels)
              \o writeEntry("c", 1, 2, Thumb(1, 2, 150).pixels)

\* That file with its magic, or its version, damaged; and a file shorter than
\* a header.
BadMagicFile == [OldFile EXCEPT ![1] = 0]
BadVersionFile == [OldFile EXCEPT ![5] = 2]
ShortFile == SubSeq(OldFile, 1, 31)

CacheFileInputs == {NoFile, OldFile, BadMagicFile, BadVersionFile, ShortFile}

\* A session starts with some file at cachePath and some save buffer, and its
\* load thread started.
InitPersist ==
    /\ InitPipeline
    /\ InitThreadPool
    /\ thumbSaveEntries \in SaveBufferInputs
    /\ thumbSaveBuffer_ = DOMAIN thumbSaveEntries
    /\ \E f \in CacheFileInputs : fs = [cachePath |-> f, tmpPath |-> NoFile]
    /\ persistIndex_ = {}
    /\ persistLoaded = FALSE
    /\ persistData_ = NullView
    /\ persistThumbInfo = EmptyMap
    /\ sv = SaveIdle
    /\ ld = [c \in {"load", "save"} |->
                LoadCall(IF c = "load" THEN "call" ELSE "idle", NullView, "none")]
    /\ InitNoScan

\* ------------------------------------ ImagePipeline::LoadPersistentThumbs

\* The call of caller c returns; SavePersistentThumbs goes on after its own.
LoadReturns(c, outcome) ==
    /\ ld' = [ld EXCEPT ![c] = LoadCall("ret", NullView, outcome)]
    /\ sv' = IF c = "save" THEN [sv EXCEPT !.pc = "done"] ELSE sv

\* exists, CreateFileW, GetFileSizeEx, CreateFileMappingW, MapViewOfFile: the
\* call returns when there is no file or it is shorter than a header, and
\* otherwise holds the file open and mapped.
LoadOpen(c) ==
    /\ ld[c].pc = "call"
    /\ IF fs.cachePath = NoFile THEN LoadReturns(c, "absent")
       ELSE IF Len(fs.cachePath) < 32 THEN LoadReturns(c, "short")
       ELSE ld' = [ld EXCEPT ![c] = LoadCall("mapped", fs.cachePath, "none")]
            /\ UNCHANGED sv
    /\ UNCHANGED <<outsidePersist, persistVars, thumbSaveBuffer_, fs, persistData_,
                   persistThumbInfo, thumbSaveEntries>>

\* The header tests, and, under the unique lock, the records indexed and the
\* handles kept.
LoadParse(c) ==
    /\ ld[c].pc = "mapped"
    /\ LET data == ld[c].data
       IN IF ~HeaderMagicOk(data)
          THEN /\ LoadReturns(c, "magic")
               /\ UNCHANGED <<persistVars, persistData_, persistThumbInfo>>
          ELSE IF ~HeaderVersionOk(data)
          THEN /\ LoadReturns(c, "version")
               /\ UNCHANGED <<persistVars, persistData_, persistThumbInfo>>
          ELSE /\ persistThumbInfo' =
                      ParseEntries(data, 0, ReadU32(data, 8), 32, persistThumbInfo)
               /\ persistIndex_' = DOMAIN persistThumbInfo'
               /\ persistLoaded' = TRUE
               /\ persistData_' = data
               /\ ld' = [ld EXCEPT ![c] = LoadCall("ret", data, "loaded")]
               /\ sv' = IF c = "save" THEN [sv EXCEPT !.pc = "done"] ELSE sv
    /\ UNCHANGED <<outsidePersist, thumbSaveBuffer_, fs, thumbSaveEntries>>

\* ------------------------------------ ImagePipeline::SavePersistentThumbs

\* The orders an unordered_map can be iterated in.
Orders(S) == {ord \in [1..Cardinality(S) -> S] :
                 \A i, j \in 1..Cardinality(S) : ord[i] = ord[j] => i = j}

\* The pixels writeEntry is handed: a save-buffer entry's own, an old entry's
\* in the mapped view.
EntryPixels(e) == IF e.old THEN PixelsAt(persistData_, e.info) ELSE e.pixels

EntryBytes(e) == writeEntry(e.path, e.info.width, e.info.height, EntryPixels(e))

\* The save buffer is moved out under thumbSaveMutex_.
SaveTakeBuffer ==
    /\ sv.pc = "idle"
    /\ sv' = [sv EXCEPT !.pc = "collect", !.saveBuffer = thumbSaveEntries]
    /\ thumbSaveEntries' = EmptyMap
    /\ thumbSaveBuffer_' = {}
    /\ UNCHANGED <<outsidePersist, persistVars, fs, persistData_,
                   persistThumbInfo, ld>>

\* The index entries not in the save buffer are collected under the shared
\* lock; with nothing to write the call returns.
SaveCollectOld ==
    /\ sv.pc = "collect"
    /\ LET old == DOMAIN persistThumbInfo \ DOMAIN sv.saveBuffer
           totalEntries == Cardinality(DOMAIN sv.saveBuffer) + Cardinality(old)
       IN IF totalEntries = 0 THEN sv' = [sv EXCEPT !.pc = "done"]
          ELSE \E new \in Orders(DOMAIN sv.saveBuffer), oldEntries \in Orders(old) :
                  LET todo ==
                        [i \in 1..Len(new) |->
                            [old |-> FALSE, path |-> new[i],
                             info |-> [pixelData |-> 0,
                                       width |-> sv.saveBuffer[new[i]].width,
                                       height |-> sv.saveBuffer[new[i]].height],
                             pixels |-> sv.saveBuffer[new[i]].pixels]]
                        \o [i \in 1..Len(oldEntries) |->
                            [old |-> TRUE, path |-> oldEntries[i],
                             info |-> persistThumbInfo[oldEntries[i]],
                             pixels |-> <<>>]]
                  IN sv' = [sv EXCEPT !.pc = "open", !.todo = todo,
                                      !.total = totalEntries,
                                      !.image = Header(totalEntries) \o
                                          Flatten([i \in 1..Len(todo) |->
                                                      EntryBytes(todo[i])])]
    /\ UNCHANGED <<outsidePersist, persistVars, thumbSaveBuffer_, fs, persistData_,
                   persistThumbInfo, thumbSaveEntries, ld>>

\* _wfopen(tmpPath, "wb"): the temporary file is created empty, or the call
\* returns.
SaveOpenTmp ==
    /\ sv.pc = "open"
    /\ \E opened \in BOOLEAN :
          IF opened
          THEN fs' = [fs EXCEPT !.tmpPath = <<>>] /\ sv' = [sv EXCEPT !.pc = "header"]
          ELSE UNCHANGED fs /\ sv' = [sv EXCEPT !.pc = "done"]
    /\ UNCHANGED <<outsidePersist, persistVars, thumbSaveBuffer_, persistData_,
                   persistThumbInfo, thumbSaveEntries, ld>>

\* fwrite(header, 1, 32, f)
SaveWriteHeader ==
    /\ sv.pc = "header"
    /\ \E k \in 0..32 :
          /\ fs' = [fs EXCEPT !.tmpPath = @ \o SubSeq(Header(sv.total), 1, k)]
          /\ sv' = [sv EXCEPT !.pc = "entries", !.err = (k < 32)]
    /\ UNCHANGED <<outsidePersist, persistVars, thumbSaveBuffer_, persistData_,
                   persistThumbInfo, thumbSaveEntries, ld>>

\* One writeEntry of the two loops, result unchecked.
SaveWriteEntry ==
    /\ sv.pc = "entries"
    /\ sv.todo # <<>>
    /\ IF sv.err
       THEN UNCHANGED fs /\ sv' = [sv EXCEPT !.todo = Tail(@)]
       ELSE \E k \in 0..Len(EntryBytes(Head(sv.todo))) :
               /\ fs' = [fs EXCEPT !.tmpPath =
                                @ \o SubSeq(EntryBytes(Head(sv.todo)), 1, k)]
               /\ sv' = [sv EXCEPT !.todo = Tail(@),
                                   !.err = (k < Len(EntryBytes(Head(sv.todo))))]
    /\ UNCHANGED <<outsidePersist, persistVars, thumbSaveBuffer_, persistData_,
                   persistThumbInfo, thumbSaveEntries, ld>>

\* fclose(f), then ClosePersistentMapping: the index is cleared and the view
\* unmapped under the unique lock.
SaveCloseMapping ==
    /\ sv.pc = "entries"
    /\ sv.todo = <<>>
    /\ sv' = [sv EXCEPT !.pc = "move"]
    /\ persistThumbInfo' = EmptyMap
    /\ persistIndex_' = {}
    /\ persistData_' = NullView
    /\ UNCHANGED <<outsidePersist, persistLoaded, thumbSaveBuffer_, fs,
                   thumbSaveEntries, ld>>

\* The file at cachePath is held open: by a call of LoadPersistentThumbs that
\* has mapped it, or by the handles the pipeline keeps.
CacheFileOpen == persistData_ # NullView \/ \E c \in DOMAIN ld : ld[c].pc = "mapped"

\* MoveFileExW(tmpPath, cachePath, MOVEFILE_REPLACE_EXISTING), result
\* unchecked: it fails while the file at cachePath is open, and can fail
\* otherwise.  Then LoadPersistentThumbs(cachePath) is called.
SaveMove ==
    /\ sv.pc = "move"
    /\ \E moved \in (IF CacheFileOpen THEN {FALSE} ELSE BOOLEAN) :
          /\ fs' = IF moved THEN [cachePath |-> fs.tmpPath, tmpPath |-> NoFile]
                   ELSE fs
          /\ sv' = [sv EXCEPT !.pc = "load", !.moved = moved]
    /\ ld' = [ld EXCEPT !["save"] = LoadCall("call", NullView, "none")]
    /\ UNCHANGED <<outsidePersist, persistVars, thumbSaveBuffer_, persistData_,
                   persistThumbInfo, thumbSaveEntries>>

SavePersistentThumbs ==
    \/ SaveTakeBuffer
    \/ SaveCollectOld
    \/ SaveOpenTmp
    \/ SaveWriteHeader
    \/ SaveWriteEntry
    \/ SaveCloseMapping
    \/ SaveMove

\* One session's persistence: the load thread's call of LoadPersistentThumbs
\* and one call of SavePersistentThumbs, which ends in its own call of
\* LoadPersistentThumbs.
NextPersist ==
    \/ \E c \in {"load", "save"} : LoadOpen(c)
    \/ \E c \in {"load", "save"} : LoadParse(c)
    \/ SavePersistentThumbs

SpecPersist == InitPersist /\ [][NextPersist]_vars

\* ------------------------------------------------------------------ C14

\* SavePersistentThumbs has returned after writing every byte, replacing the
\* file at cachePath and loading it.
SavedAndLoaded ==
    /\ sv.pc = "done"
    /\ sv.moved
    /\ ~sv.err
    /\ ld["save"].outcome = "loaded"

\* C14: round trip.  After the thumbnails of the save buffer have been
\* written by SavePersistentThumbs and the file loaded by
\* LoadPersistentThumbs, the persistent index holds, for every path the save
\* buffer held, the same width and height, and its pixelData points at bytes
\* identical to the buffer's pixels.
C14_RoundTrip ==
    SavedAndLoaded =>
        \A p \in DOMAIN sv.saveBuffer :
            /\ p \in DOMAIN persistThumbInfo
            /\ persistThumbInfo[p].width = sv.saveBuffer[p].width
            /\ persistThumbInfo[p].height = sv.saveBuffer[p].height
            /\ PixelsAt(persistData_, persistThumbInfo[p]) = sv.saveBuffer[p].pixels

\* Two thumbnails of different sizes were saved over a file of an earlier
\* session and loaded, together with a record kept from that file.
C14_Witness ==
    /\ SavedAndLoaded
    /\ DOMAIN sv.saveBuffer = {"a", "bc"}
    /\ sv.saveBuffer["a"].width # sv.saveBuffer["bc"].width
    /\ "c" \in DOMAIN persistThumbInfo

\* ------------------------------------------------------------------ C15

\* The first four bytes are not "UIVT", or the next four are not version 1.
WrongMagicOrVersion(data) ==
    \/ SubSeq(data, 1, 4) # <<85, 73, 86, 84>>
    \/ SubSeq(data, 5, 8) # <<1, 0, 0, 0>>

\* C15: a thumbnail file with a wrong magic or a wrong version makes
\* LoadPersistentThumbs add no entry to the persistent index and keep no
\* mapping open, as when the file is absent.  Stated over the step a call
\* takes once it has mapped such a file: the index, the kept view and the
\* loaded flag are unchanged and the call has returned with its view unmapped.
C15_BadHeaderLoadsNothing ==
    [][\A c \in DOMAIN ld :
          (ld[c].pc = "mapped" /\ WrongMagicOrVersion(ld[c].data) /\ ld'[c] # ld[c])
              => /\ persistThumbInfo' = persistThumbInfo
                 /\ persistIndex_' = persistIndex_
                 /\ persistData_' = persistData_
                 /\ persistLoaded' = persistLoaded
                 /\ ld'[c].pc = "ret"
                 /\ ld'[c].data = NullView]_vars

\* The load thread has returned from a file whose magic is damaged and whose
\* records are otherwise intact.
C15_Witness ==
    /\ ld["load"].pc = "ret"
    /\ ld["load"].outcome = "magic"
    /\ fs.cachePath = BadMagicFile
    /\ persistThumbInfo = EmptyMap

\* ------------------------------------------------------------------ C16

\* The complete files of a session: the one an earlier session left, and the
\* one SavePersistentThumbs set out to write, header and every record.
CompleteFile(f) == f \in CacheFileInputs \/ (sv.image # <<>> /\ f = sv.image)

\* C16: SavePersistentThumbs writes a temporary file, renames it over the
\* cache file and remaps, so that at every instant the file at cachePath is
\* the complete previous file or the complete new file, and the persistent
\* index is only ever built from a complete file (the view it points into is
\* a complete file).
C16_OnlyCompleteFiles ==
    /\ CompleteFile(fs.cachePath)
    /\ persistData_ # NullView => CompleteFile(persistData_)

\* -------------------------------------------------- paths as wide strings

\* The characters the scanned tree's paths are written in, and their UTF-16
\* code units.
Chars == {"\\", ".", "A", "G", "J", "P", "Y", "a", "b", "c", "g", "i", "j", "k",
          "n", "p", "s", "t", "u", "x", "y", "z"}

Code(ch) ==
    CASE ch = "\\" -> 92 [] ch = "." -> 46 [] ch = "A" -> 65 [] ch = "G" -> 71
      [] ch = "J" -> 74 [] ch = "P" -> 80 [] ch = "Y" -> 89 [] ch = "a" -> 97
      [] ch = "b" -> 98 [] ch = "c" -> 99 [] ch = "g" -> 103 [] ch = "i" -> 105
      [] ch = "j" -> 106 [] ch = "k" -> 107 [] ch = "n" -> 110 [] ch = "p" -> 112
      [] ch = "s" -> 115 [] ch = "t" -> 116 [] ch = "u" -> 117 [] ch = "x" -> 120
      [] ch = "y" -> 121 [] ch = "z" -> 122 [] OTHER -> 63

\* The character of a code unit ("?" for one outside Chars).
CharOf(code) ==
    IF \E ch \in Chars : Code(ch) = code THEN CHOOSE ch \in Chars : Code(ch) = code
    ELSE "?"

\* ------------------------------- Application::SaveScanCache, LoadScanCache

\* "UIVC"
ScanMagic == <<85, 73, 86, 67>>

kHeaderSize == 32
kEntrySize == 12

\* memcpy of an int16_t, and back
I16(n) == U16((n + 65536) % 65536)
ReadI16(data, offset) ==
    IF ReadU16(data, offset) >= 32768 THEN ReadU16(data, offset) - 65536
    ELSE ReadU16(data, offset)

\* The bytes of a path's wchars in the string blob.
PathBlob(path) == Flatten([k \in 1..Len(path) |-> U16(Code(path[k]))])

\* stringBlob.size() when entry i is appended
RECURSIVE BlobSizeBefore(_, _)
BlobSizeBefore(results, i) ==
    IF i <= 1 THEN 0
    ELSE BlobSizeBefore(results, i - 1) + 2 * Len(results[i - 1].path)

\* The file SaveScanCache writes for a list: header, entry table, string blob.
SaveScanCache(results) ==
    ScanMagic \o U32(1) \o U32(Len(results))
        \o U32(BlobSizeBefore(results, Len(results) + 1))
        \o U32(7) \o U32(0) \o Zeros(8)
        \o Flatten([i \in 1..Len(results) |->
                       U32(BlobSizeBefore(results, i)) \o U16(Len(results[i].path))
                           \o I16(results[i].year) \o I16(results[i].month) \o U16(0)])
        \o Flatten([i \in 1..Len(results) |-> PathBlob(results[i].path)])

\* A size test that accepts a file longer than header, table and blob.
ExpectedSizeOk_AtMost(entryCount, stringBlobSize, fileSize) ==
    /\ entryCount <= fileSize
    /\ stringBlobSize <= fileSize
    /\ kHeaderSize + entryCount * kEntrySize + stringBlobSize <= fileSize

\* expectedSize == fileSize, in 64-bit arithmetic: the sum cannot wrap, and it
\* exceeds fileSize as soon as one of its terms does.
ExpectedSizeOk(entryCount, stringBlobSize, fileSize) ==
    /\ entryCount <= fileSize
    /\ stringBlobSize <= fileSize
    /\ kHeaderSize + entryCount * kEntrySize + stringBlobSize = fileSize

\* The loop of LoadScanCache over the entry table; an entry whose path leaves
\* the blob makes the whole call return {}.
RECURSIVE ParseScanEntries(_, _, _, _, _)
ParseScanEntries(buf, i, entryCount, stringBlobSize, results) ==
    IF i >= entryCount THEN results
    ELSE LET entry == kHeaderSize + i * kEntrySize
             blobBase == kHeaderSize + entryCount * kEntrySize
             pathOffset == ReadU32(buf, entry)
             pathLen == ReadU16(buf, entry + 4)
         IN IF pathOffset > stringBlobSize \/ pathOffset + pathLen * 2 > stringBlobSize
            THEN <<>>
            ELSE ParseScanEntries(buf, i + 1, entryCount, stringBlobSize,
                     Append(results,
                         [path |-> [k \in 1..pathLen |->
                                       CharOf(ReadU16(buf, blobBase + pathOffset
                                                              + 2 * (k - 1)))],
                          year |-> ReadI16(buf, entry + 6),
                          month |-> ReadI16(buf, entry + 8)]))

\* What LoadScanCache returns for the file it finds.
LoadScanCacheOf(buf) ==
    IF buf = NoFile THEN <<>>
    ELSE IF Len(buf) < kHeaderSize THEN <<>>
    ELSE IF SubSeq(buf, 1, 4) # ScanMagic THEN <<>>
    ELSE IF ReadU32(buf, 4) # 1 THEN <<>>
    ELSE IF ~ExpectedSizeOk(ReadU32(buf, 8), ReadU32(buf, 12), Len(buf)) THEN <<>>
    ELSE ParseScanEntries(buf, 0, ReadU32(buf, 8), ReadU32(buf, 12), <<>>)

LoadScanCache ==
    /\ cached.pc = "idle"
    /\ cached' = [pc |-> "ret", results |-> LoadScanCacheOf(scanCacheFile)]
    /\ UNCHANGED <<outsideScan, scanCacheFile, albumFolders, folderProfiles_,
                   cancelFlag, sc>>

\* The lists an earlier scan can have saved.
ScanListInputs ==
    {<<>>,
     << [path |-> <<"a">>, year |-> 2024, month |-> 5] >>,
     << [path |-> <<"a">>, year |-> 2024, month |-> 5],
        [path |-> <<"b", "c">>, year |-> 2023, month |-> 12] >>}

\* Their files, and those files damaged: one byte replaced, cut short, or a
\* byte longer.
DamageBytes == {0, 1, 2, 127}
ScanCacheInputs ==
    {NoFile}
    \cup {SaveScanCache(rs) : rs \in ScanListInputs}
    \cup UNION {{[SaveScanCache(rs) EXCEPT ![i] = b] :
                    i \in 1..Len(SaveScanCache(rs)), b \in DamageBytes} :
                rs \in ScanListInputs}
    \cup UNION {{SubSeq(SaveScanCache(rs), 1, n) : n \in 0..Len(SaveScanCache(rs))} :
                rs \in ScanListInputs}
    \cup {SaveScanCache(rs) \o <<0>> : rs \in ScanListInputs}

InitScanCache ==
    /\ InitPipeline
    /\ InitThreadPool
    /\ InitNoFiles
    /\ scanCacheFile \in ScanCacheInputs
    /\ cached = [pc |-> "idle", results |-> <<>>]
    /\ albumFolders = <<>>
    /\ folderProfiles_ = <<>>
    /\ cancelFlag = FALSE
    /\ sc = ScanIdle

NextScanCache == LoadScanCache

SpecScanCache == InitScanCache /\ [][NextScanCache]_vars

\* ------------------------------------------------------------------ C17

\* The file is one LoadScanCache may trust: magic "UIVC", version 1, and a
\* length of exactly 32 + 12 * entry_count + string_blob_size.
HeaderTrusted(f) ==
    /\ f # NoFile
    /\ Len(f) >= 32
    /\ SubSeq(f, 1, 8) = <<85, 73, 86, 67, 1, 0, 0, 0>>
    /\ ReadU32(f, 8) <= Len(f)
    /\ ReadU32(f, 12) <= Len(f)
    /\ 32 + 12 * ReadU32(f, 8) + ReadU32(f, 12) = Len(f)

\* Entry i (from 0) names a path range inside the string blob.
EntryInBlob(f, i) ==
    /\ ReadU32(f, 32 + 12 * i) <= ReadU32(f, 12)
    /\ ReadU32(f, 32 + 12 * i) + 2 * ReadU16(f, 32 + 12 * i + 4) <= ReadU32(f, 12)

\* C17: LoadScanCache trusts no entry unless the magic is "UIVC", the version
\* is 1 and 32 + 12 * entry_count + string_blob_size is the file size exactly;
\* on any mismatch, or when an entry's path range leaves the string blob, it
\* returns an empty list, never a partial one; and from a file that passes it
\* returns one entry per table entry.
C17_ScanCacheAllOrNothing ==
    cached.pc = "ret" =>
        IF HeaderTrusted(scanCacheFile)
              /\ \A i \in 0..(ReadU32(scanCacheFile, 8) - 1) : EntryInBlob(scanCacheFile, i)
        THEN Len(cached.results) = ReadU32(scanCacheFile, 8)
        ELSE cached.results = <<>>

\* LoadScanCache has returned the empty list from a file with a sound header
\* and size whose first entry is in the blob and whose second is not.
C17_Witness ==
    /\ cached.pc = "ret"
    /\ cached.results = <<>>
    /\ HeaderTrusted(scanCacheFile)
    /\ ReadU32(scanCacheFile, 8) = 2
    /\ EntryInBlob(scanCacheFile, 0)
    /\ ~EntryInBlob(scanCacheFile, 1)

\* --------------- ImagePipeline::ScanFolders, Application::StartFullScan

Sep == "\\"

towlower(ch) == IF Code(ch) \in 65..90 THEN CharOf(Code(ch) + 32) ELSE ch

\* std::transform(..., ::towlower)
ToLower(s) == [k \in 1..Len(s) |-> towlower(s[k])]

\* Simd::ToLowerInPlace: A-Z to a-z
ToLowerInPlace(key) == [k \in 1..Len(key) |-> towlower(key[k])]

LastIndexOf(s, ch) ==
    IF \E k \in 1..Len(s) : s[k] = ch THEN Max({k \in 1..Len(s) : s[k] = ch})
    ELSE 0

\* path::filename() and path::extension()
filename(p) == SubSeq(p, LastIndexOf(p, Sep) + 1, Len(p))
extension(p) ==
    IF LastIndexOf(filename(p), ".") <= 1 THEN <<>>
    ELSE SubSeq(filename(p), LastIndexOf(filename(p), "."), Len(filename(p)))

\* operator< of two filenames: lexicographic on the code units
RECURSIVE WLess(_, _)
WLess(a, b) ==
    IF b = <<>> THEN FALSE
    ELSE IF a = <<>> THEN TRUE
    ELSE IF Code(Head(a)) # Code(Head(b)) THEN Code(Head(a)) < Code(Head(b))
    ELSE WLess(Tail(a), Tail(b))

supportedExts ==
    {<<".", "j", "p", "g">>, <<".", "j", "p", "e", "g">>, <<".", "p", "n", "g">>, <<".", "b", "m", "p">>, <<".", "g", "i", "f">>, <<".", "t", "i", "f">>, <<".", "t", "i", "f", "f">>, <<".", "w", "e", "b", "p">>, <<".", "i", "c", "o">>,
     <<".", "j", "x", "r">>, <<".", "h", "e", "i", "c">>, <<".", "h", "e", "i", "f">>, <<".", "a", "v", "i", "f">>}

skipDirs ==
    {<<".", "g", "i", "t">>, <<".", "s", "v", "n">>, <<".", "h", "g">>, <<".", "v", "s">>, <<".", "v", "s", "c", "o", "d", "e">>, <<".", "i", "d", "e", "a">>, <<"n", "o", "d", "e", "_", "m", "o", "d", "u", "l", "e", "s">>,
     <<"_", "_", "p", "y", "c", "a", "c", "h", "e", "_", "_">>, <<".", "t", "o", "x">>, <<".", "m", "y", "p", "y", "_", "c", "a", "c", "h", "e">>,
     <<"D", "e", "b", "u", "g">>, <<"R", "e", "l", "e", "a", "s", "e">>, <<"x", "6", "4">>, <<"x", "8", "6">>, <<"o", "b", "j">>, <<"b", "i", "n">>, <<"b", "u", "i", "l", "d">>, <<"o", "u", "t">>, <<"d", "i", "s", "t">>,
     <<"t", "a", "r", "g", "e", "t">>,
     <<"A", "p", "p", "D", "a", "t", "a">>, <<"T", "e", "m", "p">>, <<"t", "m", "p">>, <<"C", "a", "c", "h", "e">>, <<"c", "a", "c", "h", "e">>, <<"C", "a", "c", "h", "e", "d", "D", "a", "t", "a">>, <<"$", "R", "E", "C", "Y", "C", "L", "E", ".", "B", "I", "N">>,
     <<"S", "y", "s", "t", "e", "m", " ", "V", "o", "l", "u", "m", "e", " ", "I", "n", "f", "o", "r", "m", "a", "t", "i", "o", "n">>,
     <<"i", "c", "o", "n", "s">>, <<"i", "c", "o", "n">>, <<"i", "c", "o">>, <<"t", "h", "u", "m", "b", "n", "a", "i", "l", "s">>, <<"t", "h", "u", "m", "b", "n", "a", "i", "l">>, <<"t", "h", "u", "m", "b">>, <<"t", "h", "u", "m", "b", "s">>,
     <<"a", "s", "s", "e", "t", "s">>, <<"R", "e", "s", "o", "u", "r", "c", "e", "s">>, <<"r", "e", "s", "o", "u", "r", "c", "e">>, <<"r", "e", "s">>, <<"s", "p", "r", "i", "t", "e", "s">>, <<"t", "e", "x", "t", "u", "r", "e", "s">>,
     <<"d", "r", "a", "w", "a", "b", "l", "e">>, <<"d", "r", "a", "w", "a", "b", "l", "e", "-", "h", "d", "p", "i">>, <<"d", "r", "a", "w", "a", "b", "l", "e", "-", "m", "d", "p", "i">>, <<"d", "r", "a", "w", "a", "b", "l", "e", "-", "x", "h", "d", "p", "i">>,
     <<"d", "r", "a", "w", "a", "b", "l", "e", "-", "x", "x", "h", "d", "p", "i">>, <<"f", "a", "v", "i", "c", "o", "n">>, <<"f", "a", "v", "i", "c", "o", "n", "s">>, <<"e", "m", "o", "j", "i">>, <<"e", "m", "o", "j", "i", "s">>, <<"s", "t", "i", "c", "k", "e", "r", "s">>,
     <<"f", "o", "n", "t", "s">>, <<"f", "o", "n", "t">>, <<"c", "u", "r", "s", "o", "r", "s">>,
     <<"v", "e", "n", "d", "o", "r">>, <<"p", "a", "c", "k", "a", "g", "e", "s">>, <<"l", "i", "b">>, <<"l", "i", "b", "s">>, <<".", "n", "u", "g", "e", "t">>, <<".", "n", "p", "m">>, <<".", "y", "a", "r", "n">>,
     <<"W", "i", "n", "d", "o", "w", "s">>, <<"P", "r", "o", "g", "r", "a", "m", "D", "a", "t", "a">>, <<"P", "r", "o", "g", "r", "a", "m", " ", "F", "i", "l", "e", "s">>, <<"P", "r", "o", "g", "r", "a", "m", " ", "F", "i", "l", "e", "s", " ", "(", "x", "8", "6", ")">>}

kMinImageSize == 102400
kFlushInterval == 200

\* The tree on disk, unchanged during a scan.  The Pictures folder is a; j is
\* a junction to a\s; nothing is called m.  Nodes of a in the order the
\* directory iterator lists them, each directory before its content.
Dir(comps) ==
    [comps |-> comps, kind |-> "dir", attrs |-> TRUE, size |-> 0, year |-> 2024,
     month |-> 1]
File(comps, attrs, size, year, month) ==
    [comps |-> comps, kind |-> "file", attrs |-> attrs, size |-> size,
     year |-> year, month |-> month]

TreeNodes ==
    << Dir(<<<<".", "g">>>>),
       File(<<<<".", "g">>, <<"k", ".", "j", "p", "g">>>>, TRUE, 204800, 2024, 1),
       Dir(<<<<"b", "i", "n">>>>),
       File(<<<<"b", "i", "n">>, <<"i", ".", "j", "p", "g">>>>, TRUE, 204800, 2024, 2),
       File(<<<<"n", ".", "t", "x", "t">>>>, TRUE, 204800, 2024, 3),
       Dir(<<<<"s">>>>),
       File(<<<<"s">>, <<"b", ".", "j", "p", "g">>>>, TRUE, 204800, 2024, 5),
       File(<<<<"s">>, <<"x", ".", "j", "p", "g">>>>, TRUE, 204800, 2024, 5),
       File(<<<<"u", ".", "p", "n", "g">>>>, FALSE, 204800, 2024, 6),
       File(<<<<"Y", ".", "J", "P", "G">>>>, TRUE, 204800, 2024, 7),
       File(<<<<"z", ".", "p", "n", "g">>>>, TRUE, 4096, 2024, 9) >>

Pictures == <<"a">>

\* The directory a folder path names, as the file system resolves it: found
\* or not, and its place under Pictures.
Resolve(f) ==
    CASE ToLower(f) = <<"a">> -> [exists |-> TRUE, prefix |-> <<>>]
      [] ToLower(f) = <<"a", "\\", "s">> -> [exists |-> TRUE, prefix |-> <<<<"s">>>>]
      [] ToLower(f) = <<"j">> -> [exists |-> TRUE, prefix |-> <<<<"s">>>>]
      [] OTHER -> [exists |-> FALSE, prefix |-> <<>>]

\* operator/ over the names below a folder
RECURSIVE JoinPath(_, _)
JoinPath(root, comps) ==
    IF comps = <<>> THEN root
    ELSE JoinPath(root \o <<Sep>> \o Head(comps), Tail(comps))

\* std::filesystem::canonical(f, ec), with StartFullScan's fallback to f.
canonical(f) ==
    IF Resolve(f).exists THEN JoinPath(Pictures, Resolve(f).prefix) ELSE f

IsBelow(comps, prefix) ==
    Len(comps) > Len(prefix) /\ SubSeq(comps, 1, Len(prefix)) = prefix

\* What recursive_directory_iterator(dir) yields when no recursion is
\* disabled: every node below dir, its path spelled from dir.
Listing(dir) ==
    LET below == SelectSeq(TreeNodes, LAMBDA n : IsBelow(n.comps, Resolve(dir).prefix))
    IN [k \in 1..Len(below) |->
           [path |-> JoinPath(dir, SubSeq(below[k].comps, Len(Resolve(dir).prefix) + 1,
                                          Len(below[k].comps))),
            kind |-> below[k].kind, attrs |-> below[k].attrs,
            size |-> below[k].size, year |-> below[k].year,
            month |-> below[k].month]]

PathUnder(p, d) == Len(p) > Len(d) + 1 /\ SubSeq(p, 1, Len(d) + 1) = d \o <<Sep>>

\* it.disable_recursion_pending() then it.increment(): the next entry outside
\* the directory at i.
SkipSubtree(listing, i) ==
    IF \E k \in (i + 1)..Len(listing) : ~PathUnder(listing[k].path, listing[i].path)
    THEN CHOOSE k \in (i + 1)..Len(listing) :
             /\ ~PathUnder(listing[k].path, listing[i].path)
             /\ \A m \in (i + 1)..(k - 1) : PathUnder(listing[m].path, listing[i].path)
    ELSE Len(listing) + 1

\* A scan that enters every directory.
shouldSkip_Never(dirName) == FALSE

shouldSkip(dirName) ==
    \/ dirName # <<>> /\ dirName[1] = "."
    \/ dirName \in skipDirs

\* The comparator with the months oldest first.
DateLess_MonthAscending(a, b) ==
    IF a.year # b.year THEN a.year > b.year
    ELSE IF a.month # b.month THEN a.month < b.month
    ELSE WLess(filename(a.path), filename(b.path))

\* The comparator of the final sort.
DateLess(a, b) ==
    IF a.year # b.year THEN a.year > b.year
    ELSE IF a.month # b.month THEN a.month > b.month
    ELSE WLess(filename(a.path), filename(b.path))

\* One outcome of std::sort with DateLess: the elements in some order, each
\* then put before the first one it is less than.  std::sort leaves the order
\* of equivalent elements open; the order the elements are taken in covers it.
RECURSIVE InsertImage(_, _)
InsertImage(sorted, x) ==
    IF sorted = <<>> THEN <<x>>
    ELSE IF DateLess(x, Head(sorted)) THEN <<x>> \o sorted
    ELSE <<Head(sorted)>> \o InsertImage(Tail(sorted), x)

RECURSIVE SortImages(_)
SortImages(images) ==
    IF images = <<>> THEN <<>>
    ELSE InsertImage(SortImages(SubSeq(images, 1, Len(images) - 1)),
                     images[Len(images)])

\* doFlush with the flushCallback both callers pass, nullptr: it returns at
\* once, and lastFlushCount keeps its value.
doFlush(s) == s

\* visitMap[key] of StartFullScan, 0 for a folder without profile.
VisitCount(f) ==
    LET at == {k \in 1..Len(folderProfiles_) :
                  ToLowerInPlace(folderProfiles_[k].folder) = ToLowerInPlace(f)}
    IN IF at = {} THEN 0 ELSE folderProfiles_[Max(at)].visitCount

\* std::stable_sort of the folders, most visited first.
RECURSIVE InsertFolder(_, _)
InsertFolder(sorted, f) ==
    IF sorted = <<>> THEN <<f>>
    ELSE IF VisitCount(f) > VisitCount(Head(sorted)) THEN <<f>> \o sorted
    ELSE <<Head(sorted)>> \o InsertFolder(Tail(sorted), f)

RECURSIVE SortFolders(_)
SortFolders(folders) ==
    IF folders = <<>> THEN <<>>
    ELSE InsertFolder(SortFolders(SubSeq(folders, 1, Len(folders) - 1)),
                      folders[Len(folders)])

\* The loop of StartFullScan that keeps the first folder of each lowercased
\* canonical path.
RECURSIVE UniqueFolders(_, _, _)
UniqueFolders(folders, seen, unique) ==
    IF folders = <<>> THEN unique
    ELSE IF ToLowerInPlace(canonical(Head(folders))) \in seen
         THEN UniqueFolders(Tail(folders), seen, unique)
         ELSE UniqueFolders(Tail(folders),
                            seen \cup {ToLowerInPlace(canonical(Head(folders)))},
                            Append(unique, Head(folders)))

\* The known folders SHGetKnownFolderPath resolves.
KnownFolders == <<Pictures>>

\* StartFullScan up to the start of the scan thread, and the thread's entry
\* into ScanFolders.
StartFullScan ==
    /\ sc.pc \in {"idle", "exit"}
    /\ ui.pc \in {"startup", "restart"}
    /\ scanNo < MaxScans
    /\ isScanning_' = TRUE
    /\ cancelFlag' = FALSE
    /\ scanDirty_' = FALSE
    /\ gallery' = [gallery EXCEPT !.scanning = TRUE]
    /\ sc' = [ScanIdle EXCEPT
                 !.pc = "folder",
                 !.folders = IF folderProfiles_ # <<>>
                             THEN SortFolders(UniqueFolders(albumFolders \o KnownFolders,
                                                            {}, <<>>))
                             ELSE UniqueFolders(albumFolders \o KnownFolders, {}, <<>>),
                 !.dir = 1]
    /\ ui' = MainLoop
    /\ scanNo' = scanNo + 1
    /\ UNCHANGED <<outsideApp, scanCacheFile, cached, albumFolders, folderProfiles_,
                   scannedResults_, hiddenAlbumPaths_, currentImages_,
                   inManualOpen_, finalizedLog>>

\* scanCancelled_ = true, from the main thread while the scan runs.
CancelScan ==
    /\ sc.pc \in {"folder", "iter", "after", "ret"}
    /\ ~cancelFlag
    /\ cancelFlag' = TRUE
    /\ UNCHANGED <<outsideScan, scanCacheFile, cached, albumFolders, folderProfiles_,
                   sc>>

\* The head of the loop over the folders: leave on cancel, pass over a folder
\* that does not exist, else open its iterator.
ScanFolderBegin ==
    /\ sc.pc = "folder"
    /\ sc.dir <= Len(sc.folders)
    /\ sc' = IF cancelFlag THEN [sc EXCEPT !.pc = "ret"]
             ELSE IF ~Resolve(sc.folders[sc.dir]).exists
                  THEN [sc EXCEPT !.dir = @ + 1]
                  ELSE [sc EXCEPT !.pc = "iter", !.it = 1]
    /\ UNCHANGED <<outsideScan, scanCacheFile, cached, albumFolders, folderProfiles_,
                   cancelFlag>>

\* The body of the iterator loop for the entry at it.
VisitEntry(s, listing, entry) ==
    IF entry.kind = "dir"
    THEN [s EXCEPT !.it = IF shouldSkip(filename(entry.path))
                          THEN SkipSubtree(listing, s.it) ELSE s.it + 1]
    ELSE IF /\ entry.kind = "file"
            /\ ToLower(extension(entry.path)) \in supportedExts
            /\ ToLower(entry.path) \notin s.seen
    THEN IF entry.attrs /\ entry.size < kMinImageSize
         THEN [s EXCEPT !.seen = @ \cup {ToLower(entry.path)}, !.it = @ + 1]
         ELSE LET pushed == [s EXCEPT
                                !.seen = @ \cup {ToLower(entry.path)},
                                !.result = Append(@,
                                    [path |-> entry.path,
                                     sourceFolder |-> s.folders[s.dir],
                                     year |-> IF entry.attrs THEN entry.year ELSE 0,
                                     month |-> IF entry.attrs THEN entry.month ELSE 0]),
                                !.outCount = Len(s.result) + 1,
                                !.it = @ + 1]
              IN IF Len(pushed.result) - pushed.lastFlushCount >= kFlushInterval
                 THEN doFlush(pushed) ELSE pushed
    ELSE [s EXCEPT !.it = @ + 1]

\* One turn of the iterator loop: leave it at the end or on cancel, else
\* visit the entry.
ScanEntry ==
    /\ sc.pc = "iter"
    /\ sc' = IF sc.it > Len(Listing(sc.folders[sc.dir])) \/ cancelFlag
             THEN [sc EXCEPT !.pc = "after"]
             ELSE VisitEntry(sc, Listing(sc.folders[sc.dir]),
                             Listing(sc.folders[sc.dir])[sc.it])
    /\ UNCHANGED <<outsideScan, scanCacheFile, cached, albumFolders, folderProfiles_,
                   cancelFlag>>

\* After a folder's iterator: flush if not cancelled and images were added.
ScanFolderEnd ==
    /\ sc.pc = "after"
    /\ sc' = [(IF ~cancelFlag /\ Len(sc.result) > sc.lastFlushCount
               THEN doFlush(sc) ELSE sc) EXCEPT !.pc = "folder", !.dir = @ + 1]
    /\ UNCHANGED <<outsideScan, scanCacheFile, cached, albumFolders, folderProfiles_,
                   cancelFlag>>

\* After the loop over the folders: the result as it stands if cancelled,
\* sorted if not.
ScanReturn ==
    /\ sc.pc = "ret" \/ (sc.pc = "folder" /\ sc.dir > Len(sc.folders))
    /\ IF cancelFlag
       THEN sc' = [sc EXCEPT !.pc = "done", !.cancelled = TRUE]
       ELSE \E order \in Permutations(1..Len(sc.result)) :
                sc' = [sc EXCEPT
                          !.pc = "done",
                          !.result = SortImages([k \in 1..Len(sc.result) |->
                                                    sc.result[order[k]]])]
    /\ UNCHANGED <<outsideScan, scanCacheFile, cached, albumFolders, folderProfiles_,
                   cancelFlag>>

\* The album folders of albums.txt and the folder profiles of earlier runs.
AlbumInputs == {<<"A">>, <<"a", "\\", "s">>, <<"j">>, <<"m">>}
AlbumFolderInputs ==
    {<<>>} \cup {<<f>> : f \in AlbumInputs}
        \cup {<<f, g>> : f \in AlbumInputs, g \in AlbumInputs}
FolderProfileInputs == {<<>>, <<[folder |-> Pictures, visitCount |-> 1]>>}

InitScan ==
    /\ InitPipeline
    /\ InitThreadPool
    /\ InitNoFiles
    /\ scanCacheFile = NoFile
    /\ cached = [pc |-> "idle", results |-> <<>>]
    /\ albumFolders \in AlbumFolderInputs
    /\ folderProfiles_ \in FolderProfileInputs
    /\ cancelFlag = FALSE
    /\ sc = ScanIdle

NextScan ==
    \/ StartFullScan
    \/ CancelScan
    \/ ScanFolderBegin
    \/ ScanEntry
    \/ ScanFolderEnd
    \/ ScanReturn

SpecScan == InitScan /\ [][NextScan]_vars

\* ------------------------------------------------------------------ C18

\* The lowercased canonical path of a returned image: its path with the
\* folder it was found from replaced by that folder's canonical path.
CanonicalKey(img) ==
    ToLower(canonical(img.sourceFolder)
                \o SubSeq(img.path, Len(img.sourceFolder) + 1, Len(img.path)))

\* C18: the list ScanFolders returns never holds two entries for the same
\* case-insensitive canonical path, also when a folder is given twice, when
\* roots overlap, or when one root is a junction into another.
C18_NoDuplicateCanonicalPath ==
    sc.pc = "done" =>
        \A i, j \in 1..Len(sc.result) :
            i # j => CanonicalKey(sc.result[i]) # CanonicalKey(sc.result[j])

\* ------------------------------------------------------------------ C19

Images(result) == {result[i] : i \in 1..Len(result)}

\* A directory name the scan does not enter.
HiddenDirName(n) == (n # <<>> /\ n[1] = ".") \/ n \in skipDirs

\* The image files of the tree seen from the folders: entry k of folder d is
\* a regular file with a supported extension outside every hidden directory.
ImageFiles(folders) ==
    {dk \in UNION {{<<d, k>> : k \in 1..Len(Listing(folders[d]))} :
                      d \in {d \in 1..Len(folders) : Resolve(folders[d]).exists}} :
        LET listing == Listing(folders[dk[1]])
        IN /\ listing[dk[2]].kind = "file"
           /\ ToLower(extension(listing[dk[2]].path)) \in supportedExts
           /\ ~\E m \in 1..Len(listing) :
                  /\ listing[m].kind = "dir"
                  /\ HiddenDirName(filename(listing[m].path))
                  /\ PathUnder(listing[dk[2]].path, listing[m].path)}

\* What an uncancelled scan of the folders returns, as a set: each image file
\* once per lowercase path, from the first folder that shows it, unless its
\* attributes say it is smaller than 100 KB; year and month 0 without
\* attributes.
FullScanImages(folders) ==
    {[path |-> Listing(folders[dk[1]])[dk[2]].path,
      sourceFolder |-> folders[dk[1]],
      year |-> IF Listing(folders[dk[1]])[dk[2]].attrs
               THEN Listing(folders[dk[1]])[dk[2]].year ELSE 0,
      month |-> IF Listing(folders[dk[1]])[dk[2]].attrs
                THEN Listing(folders[dk[1]])[dk[2]].month ELSE 0] :
     dk \in {c \in ImageFiles(folders) :
                /\ \A o \in ImageFiles(folders) :
                       ToLower(Listing(folders[o[1]])[o[2]].path)
                           = ToLower(Listing(folders[c[1]])[c[2]].path)
                       => c[1] <= o[1]
                /\ ~(/\ Listing(folders[c[1]])[c[2]].attrs
                     /\ Listing(folders[c[1]])[c[2]].size < 100 * 1024)}}

\* C19 as stated: a cancelled ScanFolders returns a strict subset of what an
\* uncancelled scan of the same unchanged tree returns: every returned entry
\* is in the full result, and the cancelled result is not the whole of it.
C19_CancelledIsStrictSubset ==
    sc.pc = "done" /\ sc.cancelled =>
        /\ Images(sc.result) \subseteq FullScanImages(sc.folders)
        /\ Images(sc.result) # FullScanImages(sc.folders)

\* C19, amended: a cancelled ScanFolders returns a subset of what an
\* uncancelled scan of the same unchanged tree returns, which may be the whole
\* of it; an uncancelled scan returns exactly the full result.
C19_CancelledIsSubset ==
    sc.pc = "done" =>
        IF sc.cancelled
        THEN Images(sc.result) \subseteq FullScanImages(sc.folders)
        ELSE Images(sc.result) = FullScanImages(sc.folders)

\* A cancelled scan has returned some of the images and not all.
C19_Witness ==
    /\ sc.pc = "done"
    /\ sc.cancelled
    /\ sc.result # <<>>
    /\ Images(sc.result) # FullScanImages(sc.folders)

\* ------------------------------------------------------------------ C20

\* a may stand before b: newer year, or same year and newer month, or same
\* month and a filename not after b's.
NewestFirst(a, b) ==
    \/ a.year > b.year
    \/ a.year = b.year /\ a.month > b.month
    \/ a.year = b.year /\ a.month = b.month
           /\ ~WLess(filename(b.path), filename(a.path))

\* C20: the list an uncancelled ScanFolders returns is sorted by year
\* descending, then month descending, then filename ascending.
C20_SortedNewestFirst ==
    sc.pc = "done" /\ ~sc.cancelled =>
        \A i, j \in 1..Len(sc.result) :
            i < j => NewestFirst(sc.result[i], sc.result[j])

\* An uncancelled scan has returned images of two years, of two months of one
\* year, and of two filenames of one month.
C20_Witness ==
    /\ sc.pc = "done"
    /\ ~sc.cancelled
    /\ \E i, j \in 1..Len(sc.result) : sc.result[i].year # sc.result[j].year
    /\ \E i, j \in 1..Len(sc.result) :
           /\ sc.result[i].year = sc.result[j].year
           /\ sc.result[i].month # sc.result[j].month
    /\ \E i, j \in 1..Len(sc.result) :
           /\ sc.result[i].year = sc.result[j].year
           /\ sc.result[i].month = sc.result[j].month
           /\ filename(sc.result[i].path) # filename(sc.result[j].path)

\* ------------------------------------------------------------------ C21

\* Worker w is at the decode of a path that Tier 3 does not hold and that
\* neither GenerateThumbnail nor the full Decode can decode.
DecodeFails(w) ==
    /\ wk[w].pc = "tier3"
    /\ wk[w].path \notin persistIndex_
    /\ wk[w].path \notin Decodable

\* C21: a decode failure stays local to the decode task: when both
\* GenerateThumbnail and the fallback Decode fail for a path, the task pushes
\* no entry onto the ready queue and modifies no cache tier, and the worker is
\* free for the next task.
C21_DecodeFailureIsLocal ==
    [][\A w \in Workers :
          (DecodeFails(w) /\ wk'[w] # wk[w])
              => /\ readyQueue_' = readyQueue_
                 /\ thumbnailCache_' = thumbnailCache_
                 /\ thumbnailCacheBytes_' = thumbnailCacheBytes_
                 /\ tier2Cache_' = tier2Cache_
                 /\ tier2Bytes_' = tier2Bytes_
                 /\ persistIndex_' = persistIndex_
                 /\ thumbSaveBuffer_' = thumbSaveBuffer_
                 /\ lanes_' = lanes_
                 /\ wk'[w].pc = "idle"]_vars

\* The task of the undecodable path c has come to its end before the
\* persistent index was loaded: c is still recorded as requested, no task is
\* queued or running, and c is in no tier.
C21_Witness ==
    /\ ~persistLoaded
    /\ "c" \in DOMAIN pendingRequests_
    /\ QueuedCount = 0
    /\ \A w \in Workers : wk[w].pc = "idle"
    /\ "c" \notin DOMAIN thumbnailCache_
    /\ "c" \notin DOMAIN tier2Cache_

\* ------------------------------------------------------------------ C22

\* executeTask: task.fn() throws. Neither the executeTask lambda nor the loop
\* of WorkerFunc has a handler, so the exception leaves the thread function
\* of the std::jthread and std::terminate ends the process: the counters stay
\* as they are and no thread takes another step.
ExecThrow(w) ==
    /\ wk[w].pc = "run"
    /\ wk' = [wk EXCEPT ![w].pc = "terminated"]
    /\ UNCHANGED <<workerStepOnly, pending_, active_, waiter>>

Terminated == \E w \in Workers : wk[w].pc = "terminated"

\* The pool with closures that may throw.
NextPoolThrow ==
    \/ ~Terminated /\ NextPool
    \/ \E w \in Workers : ExecThrow(w)

SpecPoolThrow == Init /\ [][NextPoolThrow]_vars

\* C22: the worker pool is resilient to a task raising: when task.fn() throws,
\* the exception is caught, the worker goes on to restore the active count
\* (active_.fetch_sub) and then continues with the next queued task.
C22_ThrowIsCaught ==
    [][\A w \in Workers :
          (wk[w].pc = "run" /\ wk'[w].pc # "run") => wk'[w].pc = "asub"]_vars

\* ------------------------------------------------------------------ C23

\* C23: when RequestThumbnail(p) queues a decode, the task goes to the front
\* of the High lane if p is in visiblePaths_ and to the back of the Normal
\* lane otherwise; the other lanes keep their contents, and the Low lane is
\* never touched.
C23_RequestLane ==
    [][\A p \in Paths :
          (RequestThumbnail(p) /\ lanes_' # lanes_)
              => /\ lanes_'[Low] = lanes_[Low]
                 /\ IF p \in visiblePaths_
                    THEN /\ lanes_'[High] =
                              <<Task(p, generation_)>> \o lanes_[High]
                         /\ lanes_'[Normal] = lanes_[Normal]
                    ELSE /\ lanes_'[Normal] =
                              Append(lanes_[Normal], Task(p, generation_))
                         /\ lanes_'[High] = lanes_[High]]_vars

\* The visible path a was requested in generation 0 and again in generation
\* 1: the later task stands in front of the earlier one in the High lane.
C23_Witness ==
    /\ lanes_[High] = <<Task("a", 1), Task("a", 0)>>
    /\ ret.site = "queued"
    /\ "a" \in visiblePaths_

\* ------------------------------------------ ImagePipeline::GetCachedThumbnail

\* A lookup that uploads from Tier 3 without asking for budget.
GetCachedSync_IgnoresBudget(p) ==
    /\ p \notin DOMAIN thumbnailCache_
    /\ p \in persistIndex_
    /\ thumbnailCacheBytes_ + PixelBytes(p) <= MaxTracked
    /\ persistSyncBudget_' = persistSyncBudget_ - 1
    /\ \E tie \in BOOLEAN :
           thumbnailCache_' = Insert(thumbnailCache_, p, PixelBytes(p), tie)
    /\ thumbnailCacheBytes_' = thumbnailCacheBytes_ + PixelBytes(p)
    /\ ret' = Return("cachedSync", 0)

\* The synchronous Tier-3 path of GetCachedThumbnail, CreateBitmap succeeding.
GetCachedSync(p) ==
    /\ p \notin DOMAIN thumbnailCache_
    /\ persistSyncBudget_ > 0
    /\ p \in persistIndex_
    /\ thumbnailCacheBytes_ + PixelBytes(p) <= MaxTracked
    /\ persistSyncBudget_' = persistSyncBudget_ - 1
    /\ \E tie \in BOOLEAN :
           thumbnailCache_' = Insert(thumbnailCache_, p, PixelBytes(p), tie)
    /\ thumbnailCacheBytes_' = thumbnailCacheBytes_ + PixelBytes(p)
    /\ ret' = Return("cachedSync", 0)

\* GetCachedThumbnail: a Tier-1 hit, the synchronous Tier-3 path, or nullptr
\* (no budget, a miss of Tier 3, or CreateBitmap failed). Nothing is queued.
GetCachedThumbnail(p) ==
    /\ rpc = "idle"
    /\ \/ /\ p \in DOMAIN thumbnailCache_
          /\ \E tie \in BOOLEAN : thumbnailCache_' = Touch(thumbnailCache_, p, tie)
          /\ ret' = Return("cachedHit", 0)
          /\ UNCHANGED <<thumbnailCacheBytes_, persistSyncBudget_>>
       \/ GetCachedSync(p)
       \/ /\ p \notin DOMAIN thumbnailCache_
          /\ ret' = Return("cachedNull", 0)
          /\ UNCHANGED <<thumbnailCache_, thumbnailCacheBytes_, persistSyncBudget_>>
    /\ UNCHANGED <<otherComponents, generation_, invalidateCalls, poolVars,
                   tier2Cache_, tier2Bytes_, thumbSaveBuffer_, persistVars,
                   pendingRequests_, visiblePaths_, readyQueue_, rpc>>

\* ------------------------------------------------ ImagePipeline::GetThumbnail

\* GetThumbnail: a Tier-1 hit, or DecodeAndCreateThumbnail on the calling
\* thread and, if it made a bitmap, the insertion into Tier 1.
GetThumbnail(p) ==
    /\ rpc = "idle"
    /\ \/ /\ p \in DOMAIN thumbnailCache_
          /\ \E tie \in BOOLEAN : thumbnailCache_' = Touch(thumbnailCache_, p, tie)
          /\ ret' = Return("getHit", 0)
          /\ UNCHANGED thumbnailCacheBytes_
       \/ /\ p \notin DOMAIN thumbnailCache_
          /\ p \in Decodable
          /\ thumbnailCacheBytes_ + PixelBytes(p) <= MaxTracked
          /\ \E tie \in BOOLEAN :
                 thumbnailCache_' = Insert(thumbnailCache_, p, PixelBytes(p), tie)
          /\ thumbnailCacheBytes_' = thumbnailCacheBytes_ + PixelBytes(p)
          /\ ret' = Return("getDecoded", 0)
       \/ /\ p \notin DOMAIN thumbnailCache_
          /\ ret' = Return("getNull", 0)
          /\ UNCHANGED <<thumbnailCache_, thumbnailCacheBytes_>>
    /\ UNCHANGED <<otherComponents, generation_, invalidateCalls, poolVars,
                   tier2Cache_, tier2Bytes_, thumbSaveBuffer_, persistVars,
                   pendingRequests_, visiblePaths_, readyQueue_,
                   persistSyncBudget_, rpc>>

\* The render thread with all four operations that insert into Tier 1.
NextTier1 ==
    \/ \E p \in {"b"} : RequestThumbnail(p)
    \/ \E p \in {"b", "c"} : GetCachedThumbnail(p)
    \/ \E p \in {"a", "c"} : GetThumbnail(p)
    \/ \E n \in 0..MaxFlush : FlushReadyThumbnails(n)
    \/ EvictThumbnailsIfNeeded
    \/ LoadPersistentThumbs
    \/ Pool(Workers)

SpecTier1 == Init /\ [][NextTier1]_vars

\* ------------------------------------------------------------------ C24

\* A step in which RequestThumbnail or GetCachedThumbnail uploads the pixels
\* of p from Tier 3 on the render thread.
SyncUpload(p) ==
    \/ RequestThumbnail(p) /\ ret'.site = "sync"
    \/ GetCachedThumbnail(p) /\ ret'.site = "cachedSync"

\* C24: the synchronous Tier-3 path is budgeted per frame. A flush sets the
\* budget to PersistSyncBudgetPerFrame; every synchronous upload of
\* RequestThumbnail or GetCachedThumbnail is done with a positive budget and
\* takes exactly one from it; nothing else changes the budget, and it never
\* goes below zero: between two flushes at most PersistSyncBudgetPerFrame
\* uploads are done.
C24_SyncUploadBudget ==
    [][/\ \A p \in Paths :
             SyncUpload(p) => /\ persistSyncBudget_ > 0
                              /\ persistSyncBudget_' = persistSyncBudget_ - 1
       /\ (\E n \in 0..MaxFlush : FlushReadyThumbnails(n))
             => persistSyncBudget_' = PersistSyncBudgetPerFrame
       /\ persistSyncBudget_' # persistSyncBudget_
             => \/ \E p \in Paths : SyncUpload(p)
                \/ \E n \in 0..MaxFlush : FlushReadyThumbnails(n)
       /\ persistSyncBudget_' \in 0..PersistSyncBudgetPerFrame]_vars

\* A flush gave the frame its budget, a synchronous upload of b used it up,
\* and GetCachedThumbnail then returned nullptr for c, which Tier 3 holds and
\* Tier 1 does not.
C24_Witness ==
    /\ persistSyncBudget_ = 0
    /\ ret.site = "cachedNull"
    /\ "b" \in DOMAIN thumbnailCache_
    /\ "c" \in persistIndex_ \ DOMAIN thumbnailCache_
    /\ thumbSaveBuffer_ = {}
    /\ readyQueue_ = <<>>
    /\ pendingRequests_ = EmptyMap

\* ------------------------------------------------------------------ C25

\* C25: FlushReadyThumbnails(maxCount) removes exactly min(maxCount, queue
\* length) entries from the front of the ready queue and leaves the rest
\* queued in their order; only paths of the removed entries are uploaded into
\* Tier 1, and the number it returns, the bitmaps created, is at most the
\* number of entries removed.
C25_FlushTakesFront ==
    [][\A n \in 0..MaxFlush :
          FlushReadyThumbnails(n)
              => LET len == Len(readyQueue_)
                     removed == IF n <= len THEN n ELSE len
                 IN /\ Len(readyQueue_') = len - removed
                    /\ \A i \in 1..(len - removed) :
                           readyQueue_'[i] = readyQueue_[i + removed]
                    /\ (DOMAIN thumbnailCache_' \ DOMAIN thumbnailCache_)
                           \subseteq {readyQueue_[i].path : i \in 1..removed}
                    /\ ret'.site = "flush"
                    /\ ret'.n \in 0..removed
                    /\ ret'.n = 0 => thumbnailCache_' = thumbnailCache_]_vars

\* A flush has made one bitmap, for a, and left the entry of b queued.
C25_Witness ==
    /\ ret = Return("flush", 1)
    /\ rpc = "flush_evict"
    /\ Len(readyQueue_) = 1
    /\ readyQueue_[1].path = "b"
    /\ DOMAIN thumbnailCache_ = {"a"}
    /\ thumbSaveBuffer_ = {"a"}
    /\ PoolDrained

\* ------------------------- the synchronous Tier-3 path, lock by lock

\* The ClosePersistentMapping calls SavePersistentThumbs has made so far: the
\* call is made between the last writeEntry and MoveFileExW.
Unmaps == IF sv.pc = "move" \/ ld["save"].pc # "idle" THEN 1 ELSE 0

\* pixelPtr points into a view that was unmapped after the pointer was read.
Dangling == syncRead.caller # "none" /\ syncRead.unmaps < Unmaps

\* RequestThumbnail or GetCachedThumbnail, after a miss of Tier 1 and with
\* budget: under the shared persistMutex_ the entry of p is found and w, h and
\* pixelPtr are copied from it; the lock is released.
SyncLookup(caller, p) ==
    /\ rpc = "idle"
    /\ p \notin DOMAIN thumbnailCache_
    /\ persistSyncBudget_ > 0
    /\ p \in DOMAIN persistThumbInfo
    /\ persistThumbInfo[p].width > 0
    /\ persistThumbInfo[p].height > 0
    /\ syncRead' = [caller |-> caller, path |-> p,
                    w |-> persistThumbInfo[p].width,
                    h |-> persistThumbInfo[p].height,
                    pixelPtr |-> persistThumbInfo[p].pixelData,
                    unmaps |-> Unmaps]
    /\ rpc' = "sync_upload"
    /\ UNCHANGED <<outsideSections, taskVars, cacheMutex_, demoteList,
                   generation_, invalidateCalls, poolVars, cacheVars,
                   persistVars, pendingRequests_, visiblePaths_, readyQueue_,
                   persistSyncBudget_, ret>>

\* renderer_->CreateBitmap(w, h, pixelPtr), no lock held, and what follows it.
\* CreateBitmap reads w*h*4 bytes at pixelPtr; if the view is unmapped by then
\* the read is of freed address space: an access violation, or a bitmap of
\* whatever is mapped there now.
SyncCreateBitmap ==
    /\ rpc = "sync_upload"
    /\ LET p == syncRead.path
           bytes == syncRead.w * syncRead.h * 4
       IN \/ /\ thumbnailCacheBytes_ + bytes <= MaxTracked    \* a bitmap is made
             /\ persistSyncBudget_' = persistSyncBudget_ - 1
             /\ \E tie \in BOOLEAN :
                    thumbnailCache_' = Insert(thumbnailCache_, p, bytes, tie)
             /\ thumbnailCacheBytes_' = thumbnailCacheBytes_ + bytes
             /\ ret' = Return(IF syncRead.caller = "RequestThumbnail"
                              THEN "sync" ELSE "cachedSync", 0)
             /\ rpc' = "idle"
             /\ UNCHANGED <<pendingRequests_, lanes_>>
          \/ /\ IF syncRead.caller = "RequestThumbnail"       \* CreateBitmap fails
                THEN RequestQueue(p)
                ELSE /\ ret' = Return("cachedNull", 0)
                     /\ UNCHANGED <<thumbnailCache_, thumbnailCacheBytes_,
                                    persistSyncBudget_, pendingRequests_, lanes_>>
             /\ rpc' = "idle"
          \/ /\ Dangling                                      \* access violation
             /\ rpc' = "fault"
             /\ UNCHANGED <<thumbnailCache_, thumbnailCacheBytes_,
                            persistSyncBudget_, pendingRequests_, lanes_, ret>>
    /\ syncRead' = NoSyncRead
    /\ UNCHANGED <<outsideSections, taskVars, cacheMutex_, demoteList,
                   generation_, invalidateCalls, wk, tier2Cache_, tier2Bytes_,
                   thumbSaveBuffer_, persistVars, visiblePaths_, readyQueue_>>

\* A session with a complete thumbnail file of an earlier session and one
\* thumbnail decoded since.
InitMapped ==
    /\ InitPersist
    /\ fs.cachePath = OldFile
    /\ thumbSaveEntries = [p \in {"a"} |-> Thumb(1, 1, 10)]

\* The render thread's synchronous uploads beside the load thread and the
\* save thread; a fault ends the process.
NextMapped ==
    \/ rpc # "fault" /\ NextPersist
    \/ \E caller \in {"RequestThumbnail", "GetCachedThumbnail"} :
           SyncLookup(caller, "c")
    \/ SyncCreateBitmap
    \/ \E n \in 0..MaxFlush : FlushReadyThumbnails(n)

SpecMapped == InitMapped /\ [][NextMapped]_vars

\* ------------------------------------------------------------------ C26

\* C26: the mapped pixel bytes of Tier 3 are read only while the mapping is
\* valid: whenever the render thread, in the synchronous path of
\* RequestThumbnail or GetCachedThumbnail, hands pixelPtr to CreateBitmap, the
\* view it was read from has not been unmapped by ClosePersistentMapping.
C26_ReadsWhileMapped == [][SyncCreateBitmap => ~Dangling]_vars

\* ------------------------------- the sections held under cacheMutex_

\* ThumbnailDecodeTask, Tier 2: cacheMutex_ is taken and the path looked up; a
\* miss ends the block, a hit goes on to DecompressPixels inside it.
TaskTier2Find(w) ==
    /\ wk[w].pc = "tier2"
    /\ cacheMutex_ = "free"
    /\ fromTier2' = fromTier2 \ {w}            \* pixels is still null
    /\ IF wk[w].path \in DOMAIN tier2Cache_
       THEN /\ wk' = [wk EXCEPT ![w].pc = "decompress"]
            /\ cacheMutex_' = w
       ELSE /\ wk' = [wk EXCEPT ![w].pc = "tier3"]
            /\ UNCHANGED cacheMutex_
    /\ UNCHANGED <<outsideSections, syncRead, demoteList,
                   generation_, invalidateCalls, lanes_, cacheVars, persistVars,
                   pendingRequests_, visiblePaths_, readyQueue_,
                   persistSyncBudget_, rpc, ret>>

\* DecompressPixels returns: on success the entry is erased from Tier 2; the
\* block ends and cacheMutex_ is released.
TaskTier2Decompress(w) ==
    /\ wk[w].pc = "decompress"
    /\ LET p == wk[w].path IN
       \/ /\ tier2Bytes_' = tier2Bytes_ - tier2Cache_[p]
          /\ tier2Cache_' = Without(tier2Cache_, {p})
          /\ wk' = [wk EXCEPT ![w].pc = "gen2"]
          /\ fromTier2' = fromTier2 \cup {w}
       \/ /\ wk' = [wk EXCEPT ![w].pc = "tier3"]     \* pixels.reset()
          /\ UNCHANGED <<tier2Cache_, tier2Bytes_, fromTier2>>
    /\ cacheMutex_' = "free"
    /\ UNCHANGED <<outsideSections, syncRead, demoteList,
                   generation_, invalidateCalls, lanes_, thumbnailCache_,
                   thumbnailCacheBytes_, thumbSaveBuffer_, persistVars,
                   pendingRequests_, visiblePaths_, readyQueue_,
                   persistSyncBudget_, rpc, ret>>

\* EvictThumbnailsIfNeeded takes cacheMutex_ for the whole function: the
\* ceiling test, the candidates gathered and sorted, the eviction loop.
EvictErase ==
    /\ rpc = "flush_evict"
    /\ cacheMutex_ = "free"
    /\ IF thumbnailCacheBytes_ <= ThumbnailCacheMaxBytes
       THEN /\ ret' = Return("within", 0)
            /\ rpc' = "idle"
            /\ UNCHANGED <<thumbnailCache_, thumbnailCacheBytes_, demoteList,
                           cacheMutex_>>
       ELSE \E ord \in SortedByLastAccess(thumbnailCache_,
                           EvictCandidates(thumbnailCache_, visiblePaths_)) :
              LET r == EvictLoop(ord, 1, thumbnailCache_, thumbnailCacheBytes_)
                  evicted == {ord[i] : i \in 1..r.n}
                  Demoted(q) == q \in DemoteList(evicted)
              IN /\ ret' = Return("evicted", r.n)
                 /\ thumbnailCache_' = Normalize(Without(thumbnailCache_, evicted))
                 /\ thumbnailCacheBytes_' = r.bytes
                 /\ demoteList' = SelectSeq([i \in 1..r.n |-> ord[i]], Demoted)
                 /\ cacheMutex_' = "render"
                 /\ rpc' = "evict_demote"
    /\ UNCHANGED <<outsideSections, taskVars, syncRead, generation_,
                   invalidateCalls, poolVars, tier2Cache_, tier2Bytes_,
                   thumbSaveBuffer_, persistVars, pendingRequests_,
                   visiblePaths_, readyQueue_, persistSyncBudget_>>

\* The demotion loop, cacheMutex_ and thumbSaveMutex_ held: the next entry of
\* demoteList is looked up in the save buffer; the function returns after the
\* last one.
EvictDemote ==
    /\ rpc = "evict_demote"
    /\ IF demoteList = <<>>
       THEN /\ rpc' = "idle"
            /\ cacheMutex_' = "free"
            /\ UNCHANGED demoteList
       ELSE IF Head(demoteList) \notin thumbSaveBuffer_
       THEN /\ demoteList' = Tail(demoteList)
            /\ UNCHANGED <<rpc, cacheMutex_>>
       ELSE /\ rpc' = "compress"
            /\ UNCHANGED <<demoteList, cacheMutex_>>
    /\ UNCHANGED <<outsideSections, taskVars, syncRead, generation_,
                   invalidateCalls, poolVars, cacheVars, persistVars,
                   pendingRequests_, visiblePaths_, readyQueue_,
                   persistSyncBudget_, ret>>

\* CompressPixels returns, and on success the entry is put into Tier 2.
EvictCompress ==
    /\ rpc = "compress"
    /\ LET d == Head(demoteList) IN
       \/ /\ tier2Cache_' = With(tier2Cache_, d, CompressedBytes(d))
          /\ tier2Bytes_' = tier2Bytes_ + CompressedBytes(d)
       \/ UNCHANGED <<tier2Cache_, tier2Bytes_>>
    /\ demoteList' = Tail(demoteList)
    /\ rpc' = "evict_demote"
    /\ UNCHANGED <<outsideSections, taskVars, syncRead, cacheMutex_,
                   generation_, invalidateCalls, poolVars, thumbnailCache_,
                   thumbnailCacheBytes_, thumbSaveBuffer_, persistVars,
                   pendingRequests_, visiblePaths_, readyQueue_,
                   persistSyncBudget_, ret>>

\* The pipeline with the sections of cacheMutex_ that span a call of
\* DecompressPixels or CompressPixels taken apart; every other operation that
\* locks cacheMutex_ waits while it is held.  The viewer is opened on b, and
\* prefetches its neighbour a, after a frame whose eviction left a in Tier 2.
NextMutex ==
    \/ \E p \in Paths : cacheMutex_ = "free" /\ RequestThumbnail(p)
    \/ \E n \in 0..MaxFlush : cacheMutex_ = "free" /\ FlushReadyThumbnails(n)
    \/ EvictErase
    \/ EvictDemote
    \/ EvictCompress
    \/ /\ cacheMutex_ = "free"
       /\ "a" \in DOMAIN tier2Cache_
       /\ ret.site = "evicted"
       /\ PrefetchAround(<<"b", "a">>, 0, 1)
    \/ LoadPersistentThumbs
    \/ \E w \in Workers : Dequeue(w)
    \/ \E w \in Workers : TaskCheckGeneration(w)
    \/ \E w \in Workers : cacheMutex_ = "free" /\ TaskCheckCached(w)
    \/ \E w \in Workers : TaskTier2Find(w)
    \/ \E w \in Workers : TaskTier2Decompress(w)
    \/ \E w \in Workers : TaskTier3OrDecode(w)
    \/ \E w \in Workers : TaskRecheckGeneration(w)
    \/ \E w \in Workers : TaskPush(w)

SpecMutex == Init /\ [][NextMutex]_vars

\* ------------------------------------------------------------------ C27

\* C27: cacheMutex_ is held only for map mutation: no thread holds it while it
\* executes DecompressPixels or CompressPixels.
C27_NoWorkUnderCacheMutex ==
    /\ \A w \in Workers : wk[w].pc = "decompress" => cacheMutex_ # w
    /\ rpc = "compress" => cacheMutex_ # "render"

\* ------------------------------------------------------------------ C28

\* C28: no cache tier is mutated by a worker: a step of a worker thread (its
\* dequeue or a step of its decode task) leaves Tier 1, Tier 2 and the Tier-3
\* index as they are; workers only read Tiers 2 and 3 and push to the ready
\* queue.
C28_WorkersMutateNoTier ==
    [][(\E w \in Workers : wk'[w] # wk[w])
          => /\ thumbnailCache_' = thumbnailCache_
             /\ thumbnailCacheBytes_' = thumbnailCacheBytes_
             /\ tier2Cache_' = tier2Cache_
             /\ tier2Bytes_' = tier2Bytes_
             /\ persistIndex_' = persistIndex_]_vars

\* ------------------------------------------------------------------ C29

\* C29: in every reachable state the tracked Tier-1 byte counter equals the
\* sum of width*height*4 over the entries in Tier 1.
C29_TrackedEqualsResident ==
    thumbnailCacheBytes_ = ResidentBytes(thumbnailCache_)

\* ------------------------------------------------------------------ C30

\* C30: tracked Tier-1 bytes above the ceiling always trigger eviction: when
\* an insertion into Tier 1 (by FlushReadyThumbnails, by the synchronous
\* Tier-3 path of RequestThumbnail or GetCachedThumbnail, or by GetThumbnail)
\* leaves the tracked bytes above ThumbnailCacheMaxBytes, the operation does
\* not return before it has run EvictThumbnailsIfNeeded.
C30_InsertionAboveCeilingEvicts ==
    [][(/\ thumbnailCacheBytes_' > thumbnailCacheBytes_
        /\ thumbnailCacheBytes_' > ThumbnailCacheMaxBytes)
           => rpc' = "flush_evict"]_vars

\* ------------------------------------------------- C31: the Tier-2 budget

\* C31: the compressed bytes held in Tier 2 never exceed kTier2MaxBytes.
C31_Tier2WithinBudget == tier2Bytes_ <= kTier2MaxBytes

\* ------------------------------------------- C32: promotion out of Tier 2

\* NextMutex up to a fast scroll (InvalidateRequests) that comes while a
\* worker holds pixels it has just taken out of Tier 2; after the scroll the
\* worker goes on to its second generation check.
NextPromote ==
    \/ generation_ = 0 /\ NextMutex
    \/ /\ cacheMutex_ = "free"
       /\ \E w \in Workers : w \in fromTier2 /\ wk[w].pc = "gen2"
       /\ InvalidateRequests
    \/ generation_ > 0 /\ \E w \in Workers : TaskRecheckGeneration(w)

SpecPromote == Init /\ [][NextPromote]_vars

\* C32: a Tier-2 entry is removed only by promotion: a decode task that took
\* its pixels out of Tier 2 does not end before it has pushed them onto the
\* ready queue.
C32_RemovedOnlyByPromotion ==
    [][\A w \in Workers :
          (w \in fromTier2 /\ wk[w].pc \in {"gen2", "push"} /\ wk'[w] = IdleWorker)
             => /\ Len(readyQueue_') = Len(readyQueue_) + 1
                /\ readyQueue_'[Len(readyQueue_')].path = wk[w].path]_vars

\* ------------------------------------- C33: the pending-request table

\* A decode of p requested at the current generation is in flight: its task is
\* queued in a lane or run by a worker, or its pixels wait in the ready queue.
InFlight(p) ==
    \/ \E i \in 0..(kLaneCount - 1) : \E k \in 1..Len(lanes_[i]) :
           lanes_[i][k] = Task(p, generation_)
    \/ \E w \in Workers :
           wk[w].pc # "idle" /\ wk[w].path = p /\ wk[w].gen = generation_
    \/ \E k \in 1..Len(readyQueue_) : readyQueue_[k].path = p

\* C33: the pending-request table only suppresses requests that are in
\* flight: a RequestThumbnail returns at "already pending" only for a path
\* whose decode is still in flight.
C33_PendingOnlyInFlight ==
    [][\A p \in Paths :
          (RequestThumbnail(p) /\ ret'.site = "pending") => InFlight(p)]_vars

\* ------------------------------ ThreadPool: the worker loop and the destructor

\* What the worker loop and the destructor leave alone.
outsideShutdown == <<pipelineVars, wk, fileVars, scanVars, appVars, sectionVars, taskVars,
                     lockVars, asyncVars,
                     pending_, active_, cl, waiter, frontTasks, purgedTasks>>

\* cv_.notify_one(): the sets of threads a notification may wake, one of the
\* blocked threads, or none when no thread is blocked.
NotifyOne(lp) ==
    IF \E t \in PoolThreads : lp[t] = "blocked"
    THEN {[lp EXCEPT ![t] = "woken"] : t \in {u \in PoolThreads : lp[u] = "blocked"}}
    ELSE {lp}

\* cv_.notify_all(): every thread blocked in the wait is woken.
NotifyAllThreads(lp) == [t \in PoolThreads |-> NotifyAll(lp[t])]

\* Submit while the pool is alive: the push under mutex_, then notify_one.
SubmitTask ==
    /\ dtor = "alive"
    /\ mutex_ = "free"
    /\ submitted < MaxSubmits
    /\ submitted' = submitted + 1
    /\ lanes_' = Submit(lanes_, PoolTask(submitted + 1), Normal)
    /\ loop' \in NotifyOne(loop)
    /\ UNCHANGED <<outsideShutdown, mutex_, shutdown_, dtor>>

\* while (!shutdown_.load(acquire))
WorkerWhile(t) ==
    /\ loop[t] = "while"
    /\ loop' = [loop EXCEPT ![t] = IF shutdown_ THEN "exited" ELSE "poll"]
    /\ UNCHANGED <<outsideShutdown, submitted, lanes_, mutex_, shutdown_, dtor>>

\* Phases 1 and 2: TryDequeue under mutex_; a task is taken and executed, or
\* every try of the spin and yield phases found the lanes empty.
WorkerTryDequeue(t) ==
    /\ loop[t] = "poll"
    /\ mutex_ = "free"
    /\ IF TryDequeue(lanes_) # -1
       THEN /\ lanes_' = [lanes_ EXCEPT ![TryDequeue(lanes_)] = Tail(@)]
            /\ loop' = [loop EXCEPT ![t] = "exec"]
       ELSE /\ loop' = [loop EXCEPT ![t] = "sleep"]
            /\ UNCHANGED lanes_
    /\ UNCHANGED <<outsideShutdown, submitted, mutex_, shutdown_, dtor>>

\* executeTask returns; goto next_cycle.
WorkerTaskDone(t) ==
    /\ loop[t] = "exec"
    /\ loop' = [loop EXCEPT ![t] = "while"]
    /\ UNCHANGED <<outsideShutdown, submitted, lanes_, mutex_, shutdown_, dtor>>

\* Phase 3: std::unique_lock lock(mutex_), and on a wake-up the wait's
\* re-acquisition of mutex_.
WorkerLock(t) ==
    /\ loop[t] \in {"sleep", "woken"}
    /\ mutex_ = "free"
    /\ mutex_' = t
    /\ loop' = [loop EXCEPT ![t] = "pred"]
    /\ UNCHANGED <<outsideShutdown, submitted, lanes_, shutdown_, dtor>>

\* cv_.wait(lock, pred) evaluates pred with mutex_ held: a task is queued or
\* shutdown_ is set.  True: the wait returns, the lock is released, continue.
WorkerPredicate(t) ==
    /\ loop[t] = "pred"
    /\ IF QueuedCount > 0 \/ shutdown_
       THEN /\ mutex_' = "free"
            /\ loop' = [loop EXCEPT ![t] = "while"]
       ELSE /\ loop' = [loop EXCEPT ![t] = "block"]
            /\ UNCHANGED mutex_
    /\ UNCHANGED <<outsideShutdown, submitted, lanes_, shutdown_, dtor>>

\* pred was false: cv_.wait(lock) releases mutex_ and blocks, atomically.
WorkerBlock(t) ==
    /\ loop[t] = "block"
    /\ mutex_' = "free"
    /\ loop' = [loop EXCEPT ![t] = "blocked"]
    /\ UNCHANGED <<outsideShutdown, submitted, lanes_, shutdown_, dtor>>

\* A condition variable may wake without a notification.
WorkerSpuriousWake(t) ==
    /\ loop[t] = "blocked"
    /\ loop' = [loop EXCEPT ![t] = "woken"]
    /\ UNCHANGED <<outsideShutdown, submitted, lanes_, mutex_, shutdown_, dtor>>

WorkerFunc(t) ==
    \/ WorkerWhile(t)
    \/ WorkerTryDequeue(t)
    \/ WorkerTaskDone(t)
    \/ WorkerLock(t)
    \/ WorkerPredicate(t)
    \/ WorkerBlock(t)

\* ImagePipeline::Shutdown: threadPool_->PurgeAll() under mutex_.
ShutdownPurgeAll ==
    /\ dtor = "alive"
    /\ mutex_ = "free"
    /\ lanes_' = PurgeAll(lanes_)
    /\ dtor' = "store"
    /\ UNCHANGED <<outsideShutdown, submitted, mutex_, shutdown_, loop>>

\* ~ThreadPool: shutdown_.store(true, release); mutex_ is not taken.
DestroyStore ==
    /\ dtor = "store"
    /\ shutdown_' = TRUE
    /\ dtor' = "notify"
    /\ UNCHANGED <<outsideShutdown, submitted, lanes_, mutex_, loop>>

\* ~ThreadPool: cv_.notify_all()
DestroyNotifyAll ==
    /\ dtor = "notify"
    /\ loop' = NotifyAllThreads(loop)
    /\ dtor' = "join"
    /\ UNCHANGED <<outsideShutdown, submitted, lanes_, mutex_, shutdown_>>

\* ~ThreadPool: the joins return once every thread has left WorkerFunc
\* (request_stop() sets a stop token WorkerFunc never looks at).
DestroyJoin ==
    /\ dtor = "join"
    /\ \A t \in PoolThreads : loop[t] = "exited"
    /\ dtor' = "done"
    /\ UNCHANGED <<outsideShutdown, submitted, lanes_, mutex_, shutdown_, loop>>

NextShutdown ==
    \/ SubmitTask
    \/ \E t \in PoolThreads : WorkerFunc(t)
    \/ \E t \in PoolThreads : WorkerSpuriousWake(t)
    \/ ShutdownPurgeAll
    \/ DestroyStore
    \/ DestroyNotifyAll
    \/ DestroyJoin

SpecShutdown == Init /\ [][NextShutdown]_vars

\* Every pool thread that can take a step does, and so does the thread in
\* Shutdown; nothing obliges a client to submit, the application to shut down,
\* or a condition variable to wake without a notification.
ShutdownFairness ==
    /\ \A t \in PoolThreads : WF_vars(WorkerFunc(t))
    /\ WF_vars(DestroyStore \/ DestroyNotifyAll \/ DestroyJoin)

FairSpecShutdown == SpecShutdown /\ ShutdownFairness

\* ------------------------------------------------------------------ C34

\* C34: destroying the ThreadPool terminates: once shutdown_ is set, every
\* join of the destructor eventually returns.
C34_DestructorReturns == shutdown_ ~> (dtor = "done")

\* ------------------------------------------------------------------ C35

\* No submit, purge or dequeue is mid-way: the client is between calls and no
\* worker stands between its pop and its fetch_sub.
PoolAtRest == cl.pc = "idle" /\ \A w \in Workers : wk[w].pc # "psub"

\* C35: the pool's pending counter agrees with its lanes: it never goes below
\* zero (a wrapped counter exceeds every number of tasks submitted), and
\* whenever no submit, purge or dequeue is mid-way it equals the number of
\* tasks queued in the three lanes.
C35_PendingAgreesWithLanes ==
    /\ pending_ <= submitted
    /\ PoolAtRest => pending_ = QueuedCount

\* ------------------------------------------------ the pipeline's locks

\* What the locking steps leave alone.
outsideLocks == <<pipelineVars, poolVars, tpVars, fileVars, scanVars, appVars,
                  sectionVars, taskVars, shutdownVars, asyncVars>>

\* A lock_guard or unique_lock block on m with no lock taken inside it, and a
\* shared_lock block on m.
Block(m) == <<[a |-> "lock", m |-> m], [a |-> "unlock", m |-> m]>>
SharedBlock(m) == <<[a |-> "lock_shared", m |-> m], [a |-> "unlock", m |-> m]>>

\* EvictThumbnailsIfNeeded: cacheMutex_ for the whole function, thumbSaveMutex_
\* inside it for the demotion loop.
EvictLocks ==
    <<[a |-> "lock", m |-> "cacheMutex_"], [a |-> "lock", m |-> "thumbSaveMutex_"],
      [a |-> "unlock", m |-> "thumbSaveMutex_"], [a |-> "unlock", m |-> "cacheMutex_"]>>

\* A save that looks into Tier 1 while it holds the save buffer's mutex.
SaveLocks_HoldsSaveMutex ==
    <<[a |-> "lock", m |-> "thumbSaveMutex_"], [a |-> "lock", m |-> "cacheMutex_"],
      [a |-> "unlock", m |-> "cacheMutex_"], [a |-> "unlock", m |-> "thumbSaveMutex_"]>>
    \o SharedBlock("persistMutex_") \o Block("persistMutex_")
    \o Block("persistMutex_")

\* SavePersistentThumbs: the buffer taken under thumbSaveMutex_, the old
\* entries collected under the shared persistMutex_, then
\* ClosePersistentMapping and LoadPersistentThumbs, each under the unique one.
SaveLocks ==
    Block("thumbSaveMutex_") \o SharedBlock("persistMutex_")
    \o Block("persistMutex_") \o Block("persistMutex_")

\* The locks an operation of the render thread takes, in order, on its
\* longest path; Submit, SubmitBatch and the purges are the blocks on the
\* pool's mutex_.
RenderLocks(op) ==
    CASE op = "RequestThumbnail" ->
             Block("cacheMutex_") \o SharedBlock("persistMutex_")
             \o Block("cacheMutex_") \o Block("cacheMutex_") \o Block("mutex_")
      [] op = "GetCachedThumbnail" ->
             Block("cacheMutex_") \o SharedBlock("persistMutex_")
             \o Block("cacheMutex_")
      [] op = "GetThumbnail" -> Block("cacheMutex_") \o Block("cacheMutex_")
      [] op = "GetBitmapAsync" -> Block("cacheMutex_") \o Block("mutex_")
      [] op = "PrefetchAround" -> Block("cacheMutex_") \o Block("mutex_")
      [] op = "FlushReadyThumbnails" ->
             Block("readyMutex_") \o Block("thumbSaveMutex_")
             \o Block("cacheMutex_") \o EvictLocks
      [] op = "InvalidateRequests" ->
             Block("mutex_") \o Block("mutex_") \o Block("cacheMutex_")
      [] op = "SetVisibleRange" -> Block("cacheMutex_")
      [] op = "HasPendingThumbnails" -> Block("readyMutex_")
      [] op = "Shutdown" ->
             Block("mutex_") \o Block("persistMutex_")
             \o Block("thumbSaveMutex_") \o Block("cacheMutex_")

RenderOps ==
    {"RequestThumbnail", "GetCachedThumbnail", "GetThumbnail", "GetBitmapAsync",
     "PrefetchAround", "FlushReadyThumbnails", "InvalidateRequests",
     "SetVisibleRange", "HasPendingThumbnails", "Shutdown"}

\* A pool worker: TryDequeue under mutex_, then the task it took, a
\* ThumbnailDecodeTask or the closure of GetBitmapAsync.
WorkerLocks(op) ==
    CASE op = "ThumbnailDecodeTask" ->
             Block("mutex_") \o Block("cacheMutex_") \o Block("cacheMutex_")
             \o SharedBlock("persistMutex_") \o Block("readyMutex_")
      [] op = "GetBitmapAsyncTask" -> Block("mutex_") \o Block("cacheMutex_")

WorkerOps == {"ThumbnailDecodeTask", "GetBitmapAsyncTask"}

\* LoadPersistentThumbs: the parse under the unique persistMutex_.
LoadLocks == Block("persistMutex_")

\* The operations a thread runs and the locks each of them takes.
OpsOf(t) ==
    CASE t = "render" -> RenderOps
      [] t = "worker" -> WorkerOps
      [] t = "save" -> {"SavePersistentThumbs"}
      [] t = "load" -> {"LoadPersistentThumbs"}

LocksOf(t, op) ==
    CASE t = "render" -> RenderLocks(op)
      [] t = "worker" -> WorkerLocks(op)
      [] t = "save" -> SaveLocks
      [] t = "load" -> LoadLocks

\* The locking step the thread is at, or none.
NoStep == [a |-> "none", m |-> "-"]
StepOf(t) ==
    IF inOp[t].op # "idle" /\ inOp[t].i <= Len(LocksOf(t, inOp[t].op))
    THEN LocksOf(t, inOp[t].op)[inOp[t].i]
    ELSE NoStep

\* The threads holding m, and those holding it other than shared.
Holders(m) == {u \in Threads : \E k \in 1..Len(held[u]) : held[u][k].m = m}
Owners(m) ==
    {u \in Threads : \E k \in 1..Len(held[u]) :
                        held[u][k].m = m /\ held[u][k].a = "lock"}

\* std::mutex and the unique side of std::shared_mutex are free when nobody
\* holds them, the shared side when nobody holds the lock exclusively.
CanAcquire(step) ==
    IF step.a = "lock_shared" THEN Owners(step.m) = {} ELSE Holders(step.m) = {}

\* The thread enters an operation.
OpBegin(t, op) ==
    /\ inOp[t].op = "idle"
    /\ inOp' = [inOp EXCEPT ![t] = [op |-> op, i |-> 1]]
    /\ UNCHANGED <<outsideLocks, held>>

\* lock() or lock_shared() returns.
OpLock(t) ==
    /\ StepOf(t).a \in {"lock", "lock_shared"}
    /\ CanAcquire(StepOf(t))
    /\ held' = [held EXCEPT ![t] = Append(@, StepOf(t))]
    /\ inOp' = [inOp EXCEPT ![t].i = @ + 1]
    /\ UNCHANGED outsideLocks

\* The end of a lock's scope: the lock taken last is released.
OpUnlock(t) ==
    /\ StepOf(t).a = "unlock"
    /\ held[t] # <<>>
    /\ held[t][Len(held[t])].m = StepOf(t).m
    /\ held' = [held EXCEPT ![t] = SubSeq(@, 1, Len(@) - 1)]
    /\ inOp' = [inOp EXCEPT ![t].i = @ + 1]
    /\ UNCHANGED outsideLocks

\* The operation returns, at its end or earlier between two blocks.
OpReturn(t) ==
    /\ inOp[t].op # "idle"
    /\ held[t] = <<>>
    /\ inOp' = [inOp EXCEPT ![t] = [op |-> "idle", i |-> 0]]
    /\ UNCHANGED <<outsideLocks, held>>

NextLocks ==
    \/ \E t \in Threads : \E op \in OpsOf(t) : OpBegin(t, op)
    \/ \E t \in Threads : OpLock(t)
    \/ \E t \in Threads : OpUnlock(t)
    \/ \E t \in Threads : OpReturn(t)

SpecLocks == Init /\ [][NextLocks]_vars

\* ------------------------------------------------------------------ C36

\* The thread waits for a lock it cannot take.
Waiting(t) == StepOf(t).a \in {"lock", "lock_shared"} /\ ~CanAcquire(StepOf(t))

\* A holder of the lock t waits for that keeps t from taking it.
Blocks(u, t) ==
    IF StepOf(t).a = "lock_shared" THEN u \in Owners(StepOf(t).m)
    ELSE u \in Holders(StepOf(t).m)

\* C36: the pipeline is deadlock-free: there is no set of threads each of
\* which waits for a lock held by a thread of the set, and a thread holds
\* either one lock or cacheMutex_ with thumbSaveMutex_ taken inside it.
C36_NoLockCycle ==
    /\ \A S \in SUBSET Threads :
           S # {} => \E t \in S : ~Waiting(t) \/ \A u \in S : ~Blocks(u, t)
    /\ \A t \in Threads :
           \/ Len(held[t]) <= 1
           \/ /\ Len(held[t]) = 2
              /\ held[t][1].m = "cacheMutex_"
              /\ held[t][2].m = "thumbSaveMutex_"

\* The render thread is in the demotion loop of an eviction, holding
\* cacheMutex_ and thumbSaveMutex_, while the worker waits for cacheMutex_ and
\* the saving thread for thumbSaveMutex_, and the loading thread parses under
\* persistMutex_.
C36_Witness ==
    /\ inOp["render"].op = "FlushReadyThumbnails"
    /\ Len(held["render"]) = 2
    /\ Waiting("worker") /\ StepOf("worker").m = "cacheMutex_"
    /\ Waiting("save") /\ StepOf("save").m = "thumbSaveMutex_"
    /\ Holders("persistMutex_") = {"load"}

\* ------------------------------------------- ImagePipeline::GetBitmapAsync

\* What GetBitmapAsync and its closure leave alone.
outsideAsync == <<tpVars, fileVars, scanVars, appVars, sectionVars, taskVars,
                  shutdownVars, lockVars, generation_, invalidateCalls, wk,
                  cacheVars, persistVars, pendingRequests_, visiblePaths_,
                  readyQueue_, persistSyncBudget_, rpc, ret>>

\* GetBitmapAsync(path, callback): a hit of the full-image cache invokes the
\* callback at once; otherwise a closure holding the path and the callback is
\* submitted to the Normal lane.
GetBitmapAsync(p) ==
    /\ rpc = "idle"
    /\ asyncCalls < MaxSubmits
    /\ asyncCalls' = asyncCalls + 1
    /\ IF p \in fullImageCache_
       THEN /\ cbCount' = Append(cbCount, 1)
            /\ UNCHANGED lanes_
       ELSE /\ cbCount' = Append(cbCount, 0)
            /\ lanes_' = Submit(lanes_, [path |-> p, cb |-> asyncCalls + 1], Normal)
    /\ UNCHANGED <<outsideAsync, fullImageCache_, asyncTask>>

\* A worker's TryDequeue takes the closure.
AsyncDequeue(w) ==
    /\ asyncTask[w] = NoClosure
    /\ TryDequeue(lanes_) # -1
    /\ asyncTask' = [asyncTask EXCEPT ![w] = Head(lanes_[TryDequeue(lanes_)])]
    /\ lanes_' = [lanes_ EXCEPT ![TryDequeue(lanes_)] = Tail(@)]
    /\ UNCHANGED <<outsideAsync, fullImageCache_, asyncCalls, cbCount>>

\* The closure runs: DecodeAndCreateBitmap, the bitmap cached if there is one,
\* and the callback invoked with the bitmap or with null.
AsyncRun(w) ==
    /\ asyncTask[w] # NoClosure
    /\ \E bitmap \in (IF asyncTask[w].path \in Decodable THEN BOOLEAN ELSE {FALSE}) :
           fullImageCache_' = IF bitmap THEN fullImageCache_ \cup {asyncTask[w].path}
                              ELSE fullImageCache_
    /\ cbCount' = [cbCount EXCEPT ![asyncTask[w].cb] = @ + 1]
    /\ asyncTask' = [asyncTask EXCEPT ![w] = NoClosure]
    /\ UNCHANGED <<outsideAsync, lanes_, asyncCalls>>

\* The viewer prefetches the neighbours of the current image while the
\* gallery's fast scroll invalidates the thumbnail requests.
NextAsync ==
    \/ \E p \in Paths : GetBitmapAsync(p)
    \/ \E w \in Workers : AsyncDequeue(w)
    \/ \E w \in Workers : AsyncRun(w)
    \/ InvalidateRequests

SpecAsync == Init /\ [][NextAsync]_vars

\* ------------------------------------------------------------------ C37

\* The closure of call id is queued in a lane or run by a worker.
ClosureAlive(id) ==
    \/ \E i \in 0..(kLaneCount - 1) : \E k \in 1..Len(lanes_[i]) :
           lanes_[i][k].cb = id
    \/ \E w \in Workers : asyncTask[w].cb = id

\* C37: GetBitmapAsync invokes the callback exactly once for every call: the
\* callback of a call has been invoked once, or it has not been invoked and
\* the call's closure is still queued or running.
C37_CallbackExactlyOnce ==
    \A id \in 1..asyncCalls :
        \/ cbCount[id] = 1
        \/ cbCount[id] = 0 /\ ClosureAlive(id)

\* ------------------------------------------------------------ Application

\* path.parent_path()
parent_path(p) == SubSeq(p, 1, LastIndexOf(p, Sep) - 1)

\* The extensions ScanDirectory accepts.
directoryExts ==
    {<<".", "j", "p", "g">>, <<".", "j", "p", "e", "g">>, <<".", "p", "n", "g">>,
     <<".", "b", "m", "p">>, <<".", "g", "i", "f">>, <<".", "t", "i", "f">>,
     <<".", "t", "i", "f", "f">>, <<".", "w", "e", "b", "p">>, <<".", "i", "c", "o">>,
     <<".", "j", "x", "r">>}

\* std::sort of paths by filename
RECURSIVE InsertPath(_, _)
InsertPath(sorted, x) ==
    IF sorted = <<>> THEN <<x>>
    ELSE IF WLess(filename(x), filename(Head(sorted))) THEN <<x>> \o sorted
    ELSE <<Head(sorted)>> \o InsertPath(Tail(sorted), x)

RECURSIVE SortPaths(_)
SortPaths(paths) ==
    IF paths = <<>> THEN <<>>
    ELSE InsertPath(SortPaths(SubSeq(paths, 1, Len(paths) - 1)), paths[Len(paths)])

\* ScanDirectory: the image files directly in dir, by filename.
ScanDirectory(dir) ==
    IF ~Resolve(dir).exists THEN <<>>
    ELSE LET files == SelectSeq(Listing(dir),
                 LAMBDA e : /\ e.kind = "file"
                            /\ parent_path(e.path) = dir
                            /\ ToLower(extension(e.path)) \in directoryExts)
         IN SortPaths([k \in 1..Len(files) |-> files[k].path])

\* The paths of a list of scanned images.
PathsOf(results) == [k \in 1..Len(results) |-> results[k].path]

\* FilterHiddenAlbums: the images whose lowercased parent folder is not a
\* lowercased hidden album.
FilterHiddenAlbums(images) ==
    LET hidden == {ToLowerInPlace(hiddenAlbumPaths_[k]) :
                      k \in 1..Len(hiddenAlbumPaths_)}
    IN SelectSeq(images,
           LAMBDA img : ToLowerInPlace(parent_path(img.path)) \notin hidden)

\* std::filesystem::exists(dir) of ScanFolders, the overload that throws: the
\* status of a folder on a volume that does not answer cannot be read.
StatusFails(f) == ~Resolve(f).exists

\* exists(dir) throws out of ScanFolders.
ScanThrow ==
    /\ sc.pc = "folder"
    /\ sc.dir <= Len(sc.folders)
    /\ ~cancelFlag
    /\ StatusFails(sc.folders[sc.dir])
    /\ sc' = [sc EXCEPT !.pc = "caught"]
    /\ UNCHANGED <<outsideScan, scanCacheFile, cached, albumFolders, folderProfiles_,
                   cancelFlag>>

\* The scan thread after ScanFolders: scannedResults_ = std::move(results)
\* under scanMutex_.
ThreadStoreResults ==
    /\ sc.pc = "done"
    /\ scannedResults_' = sc.result
    /\ sc' = [sc EXCEPT !.pc = "flag"]
    /\ UNCHANGED <<outsideApp, scanCacheFile, cached, albumFolders, folderProfiles_,
                   cancelFlag, isScanning_, scanDirty_, hiddenAlbumPaths_, gallery,
                   currentImages_, inManualOpen_, ui, scanNo, finalizedLog>>

\* isScanning_ = false
ThreadClearScanning ==
    /\ sc.pc = "flag"
    /\ isScanning_' = FALSE
    /\ sc' = [sc EXCEPT !.pc = "dirty"]
    /\ UNCHANGED <<outsideApp, scanCacheFile, cached, albumFolders, folderProfiles_,
                   cancelFlag, scannedResults_, scanDirty_, hiddenAlbumPaths_,
                   gallery, currentImages_, inManualOpen_, ui, scanNo,
                   finalizedLog>>

\* scanDirty_ = true, and the thread function returns.
ThreadSetDirty ==
    /\ sc.pc = "dirty"
    /\ scanDirty_' = TRUE
    /\ sc' = [sc EXCEPT !.pc = "exit"]
    /\ UNCHANGED <<outsideApp, scanCacheFile, cached, albumFolders, folderProfiles_,
                   cancelFlag, scannedResults_, isScanning_, hiddenAlbumPaths_,
                   gallery, currentImages_, inManualOpen_, ui, scanNo,
                   finalizedLog>>

\* The catch blocks: isScanning_ = false, and the thread function returns.
ThreadCatch ==
    /\ sc.pc = "caught"
    /\ isScanning_' = FALSE
    /\ sc' = [sc EXCEPT !.pc = "exit"]
    /\ UNCHANGED <<outsideApp, scanCacheFile, cached, albumFolders, folderProfiles_,
                   cancelFlag, scannedResults_, scanDirty_, hiddenAlbumPaths_,
                   gallery, currentImages_, inManualOpen_, ui, scanNo,
                   finalizedLog>>

\* CheckScanProgress up to its test of isScanning_: during the scan it shows
\* the progress and returns, else it goes on to scanDirty_.  The count the
\* gallery shows with the scanning state is left out.
CheckScanProgress ==
    /\ ui.pc = "loop"
    /\ IF isScanning_
       THEN /\ gallery' = [gallery EXCEPT !.scanning = TRUE]
            /\ ui' = ui
       ELSE /\ ui' = [ui EXCEPT !.pc = "exchange"]
            /\ gallery' = gallery
    /\ UNCHANGED <<outsideApp, scanVars, isScanning_, scanDirty_, scannedResults_,
                   hiddenAlbumPaths_, currentImages_, inManualOpen_, scanNo,
                   finalizedLog>>

\* scanDirty_.exchange(false) and the one-shot rebuild: the results are moved
\* out of scannedResults_, which the move leaves empty, filtered, saved and
\* shown.  SaveScanCache is taken to write its file whole.
CheckScanProgressExchange ==
    /\ ui.pc = "exchange"
    /\ ui' = MainLoop
    /\ scanDirty_' = FALSE
    /\ IF scanDirty_
       THEN LET results == FilterHiddenAlbums(scannedResults_)
            IN /\ scannedResults_' = <<>>
               /\ gallery' = [images |-> PathsOf(results), scanning |-> FALSE,
                              manual |-> FALSE]
               /\ scanCacheFile' = SaveScanCache(results)
               /\ inManualOpen_' = FALSE
               /\ currentImages_' = PathsOf(results)
               /\ finalizedLog' = Append(finalizedLog,
                                         [scan |-> scanNo, cancelled |-> cancelFlag])
       ELSE UNCHANGED <<scannedResults_, gallery, scanCacheFile, inManualOpen_,
                        currentImages_, finalizedLog>>
    /\ UNCHANGED <<outsideApp, cached, albumFolders, folderProfiles_, cancelFlag, sc,
                   isScanning_, hiddenAlbumPaths_, scanNo>>

\* The body of OpenImages after its cancel block, as the values it assigns.
OpenedImages(paths) ==
    IF ScanDirectory(parent_path(paths[1])) = <<>> THEN paths
    ELSE ScanDirectory(parent_path(paths[1]))

\* The files a dialog or a drop hands over: one image of the folder s, or
\* none when the dialog is cancelled.
OpenInputs == {<< <<"a", "\\", "s", "\\", "b", ".", "j", "p", "g">> >>}
NoPaths == <<>>

\* The handlers that open files: OpenImages itself, Ctrl+O and a file drop.
OpenSites == {"OpenImages", "CtrlO", "Drop"}

\* What a handler does once no scan runs: Ctrl+O with a cancelled dialog
\* returns, the others run the body of OpenImages.
OpenBody(paths) ==
    IF paths = NoPaths
    THEN UNCHANGED <<currentImages_, inManualOpen_>> /\ gallery' = gallery
    ELSE /\ currentImages_' = OpenedImages(paths)
         /\ gallery' = [gallery EXCEPT !.images = OpenedImages(paths),
                                       !.manual = TRUE]
         /\ inManualOpen_' = TRUE

\* A handler that opens files, up to scanThread_.join(): with a scan running
\* it sets scanCancelled_ and waits for the thread, else it runs its body.
\* The files do not change while it waits, so what the body will find in the
\* directory is noted with the call.
OpenImages(site, paths) ==
    /\ ui.pc = "loop"
    /\ paths = NoPaths => site = "CtrlO"
    /\ IF isScanning_
       THEN /\ cancelFlag' = TRUE
            /\ ui' = [pc |-> "join", site |-> site, paths |-> paths,
                      opened |-> IF paths = NoPaths THEN <<>>
                                 ELSE OpenedImages(paths)]
            /\ UNCHANGED <<currentImages_, inManualOpen_, gallery>>
       ELSE /\ OpenBody(paths)
            /\ UNCHANGED <<cancelFlag, ui>>
    /\ UNCHANGED <<outsideApp, scanCacheFile, cached, albumFolders, folderProfiles_,
                   sc, isScanning_, scanDirty_, scannedResults_, hiddenAlbumPaths_,
                   scanNo, finalizedLog>>

\* join() returns when the thread function has returned: isScanning_ = false,
\* SetScanningState(false, 0) in OpenImages and Ctrl+O but not in the drop
\* handler, then the body.
JoinScanThread ==
    /\ ui.pc = "join"
    /\ sc.pc = "exit"
    /\ isScanning_' = FALSE
    /\ ui' = MainLoop
    /\ IF ui.paths = NoPaths
       THEN /\ gallery' = [gallery EXCEPT !.scanning = FALSE]
            /\ UNCHANGED <<currentImages_, inManualOpen_>>
       ELSE /\ currentImages_' = ui.opened
            /\ gallery' = [images |-> ui.opened,
                           scanning |-> IF ui.site = "Drop" THEN gallery.scanning
                                        ELSE FALSE,
                           manual |-> TRUE]
            /\ inManualOpen_' = TRUE
    /\ UNCHANGED <<outsideApp, scanVars, scanDirty_, scannedResults_,
                   hiddenAlbumPaths_, scanNo, finalizedLog>>

\* RestoreScanGallery: back from manual mode to the scanned list, or on to
\* StartFullScan when there is none.
RestoreScanGallery ==
    /\ ui.pc = "loop"
    /\ inManualOpen_
    /\ scannedResults_ # <<>> \/ scanNo < MaxScans
    /\ inManualOpen_' = FALSE
    /\ IF scannedResults_ # <<>>
       THEN /\ gallery' = [gallery EXCEPT !.images = PathsOf(scannedResults_),
                                          !.manual = FALSE]
            /\ currentImages_' = PathsOf(scannedResults_)
            /\ ui' = ui
       ELSE /\ gallery' = [gallery EXCEPT !.manual = FALSE]
            /\ currentImages_' = currentImages_
            /\ ui' = [ui EXCEPT !.pc = "restart"]
    /\ UNCHANGED <<outsideApp, scanVars, isScanning_, scanDirty_, scannedResults_,
                   hiddenAlbumPaths_, scanNo, finalizedLog>>

\* The images RemoveAlbumFolder keeps of a list: those whose lowercased
\* parent folder is not the lowercased album path.
KeptImages(images, albumPath) ==
    SelectSeq(images,
        LAMBDA img : ToLowerInPlace(parent_path(img.path)) # ToLowerInPlace(albumPath))

\* RemoveAlbumFolder: hide the album, erase its images from scannedResults_,
\* show and save what is left of scannedResults_.
RemoveAlbumFolder(albumPath) ==
    /\ ui.pc = "loop"
    /\ Len(hiddenAlbumPaths_) < MaxHidden
    /\ hiddenAlbumPaths_' = Append(hiddenAlbumPaths_, albumPath)
    /\ scannedResults_' = KeptImages(scannedResults_, albumPath)
    /\ gallery' = [gallery EXCEPT
                      !.images = PathsOf(KeptImages(scannedResults_, albumPath))]
    /\ currentImages_' = PathsOf(KeptImages(scannedResults_, albumPath))
    /\ scanCacheFile' = SaveScanCache(KeptImages(scannedResults_, albumPath))
    /\ UNCHANGED <<outsideApp, cached, albumFolders, folderProfiles_, cancelFlag, sc,
                   isScanning_, scanDirty_, inManualOpen_, ui, scanNo, finalizedLog>>

\* The albums the user removes: the folder s as the gallery spells it and in
\* another case.
AlbumPathInputs == {<<"a", "\\", "s">>, <<"A", "\\", "S">>}

\* The application with the pictures folder and at most one album folder
\* that cannot be reached.
InitApp ==
    /\ InitPipeline
    /\ InitThreadPool
    /\ InitNoFiles
    /\ scanCacheFile = NoFile
    /\ cached = [pc |-> "idle", results |-> <<>>]
    /\ albumFolders \in {<<>>, << <<"m">> >>}
    /\ folderProfiles_ = <<>>
    /\ cancelFlag = FALSE
    /\ sc = ScanIdle

NextApp ==
    \/ StartFullScan
    \/ ScanFolderBegin
    \/ ScanEntry
    \/ ScanFolderEnd
    \/ ScanReturn
    \/ ScanThrow
    \/ ThreadStoreResults
    \/ ThreadClearScanning
    \/ ThreadSetDirty
    \/ ThreadCatch
    \/ CheckScanProgress
    \/ CheckScanProgressExchange
    \/ \E site \in OpenSites, paths \in OpenInputs \cup {NoPaths} :
           OpenImages(site, paths)
    \/ JoinScanThread
    \/ RestoreScanGallery
    \/ \E albumPath \in AlbumPathInputs : RemoveAlbumFolder(albumPath)

SpecApp == InitApp /\ [][NextApp]_vars

\* The steps of the scan thread after ScanFolders.
ThreadTail ==
    \/ ThreadStoreResults
    \/ ThreadClearScanning
    \/ ThreadSetDirty
    \/ ThreadCatch

\* The scan thread, once ScanFolders has returned or thrown, runs to its end,
\* and the message loop keeps calling CheckScanProgress and finishes the
\* handler it is in.  The steps inside ScanFolders need no fairness for a
\* property of a thread that has left it.
AppFairness ==
    /\ WF_vars(ThreadTail)
    /\ WF_vars(StartFullScan)
    /\ WF_vars(JoinScanThread)
    /\ WF_vars(CheckScanProgress)
    /\ WF_vars(CheckScanProgressExchange)

FairSpecApp == SpecApp /\ AppFairness

\* ------------------------------------------------------------------ C38

\* The one-shot rebuilds made for scan n.
FinalizedCount(n) ==
    Cardinality({k \in 1..Len(finalizedLog) : finalizedLog[k].scan = n})

\* C38: a scan whose thread has returned without being cancelled is rebuilt
\* from by CheckScanProgress, once and no more often: no scan is ever
\* finalized twice, and the return of the thread of scan n leads to the one
\* finalization of scan n, unless the user has a later scan started first.
C38_FinalizedExactlyOnce ==
    \A n \in 1..MaxScans :
        /\ [](FinalizedCount(n) <= 1)
        /\ (scanNo = n /\ sc.pc = "exit" /\ ~cancelFlag)
               ~> (FinalizedCount(n) = 1 \/ scanNo > n)

\* ------------------------------------------------------------------ C39

\* The thread of the last scan has returned from a ScanFolders that left its
\* loops on scanCancelled_, with the list as far as it had come.
CancelledScanReturned == sc.pc = "exit" /\ sc.cancelled

\* C39: the list of a cancelled scan is not finalized: a call of
\* CheckScanProgress that comes after the thread of a cancelled scan has
\* returned leaves the scan cache file, the images the gallery shows and the
\* manual-open mode as the cancelling handler left them.
C39_CancelledScanNotFinalized ==
    [][(CancelledScanReturned /\ ui.pc = "exchange" /\ ui'.pc = "loop")
          => /\ scanCacheFile' = scanCacheFile
             /\ gallery'.images = gallery.images
             /\ gallery'.manual = gallery.manual
             /\ inManualOpen_' = inManualOpen_]_vars

\* ------------------------------------------------------------------ C40

\* The last scan ran to its end and CheckScanProgress has finalized it, and
\* the gallery shows its list.
ScanFinalized ==
    /\ sc.pc = "exit"
    /\ ~sc.cancelled
    /\ ~isScanning_
    /\ ~scanDirty_
    /\ FinalizedCount(scanNo) = 1
    /\ ~inManualOpen_

\* Whether an image lies directly in the album folder, cases apart.
InAlbum(path, albumPath) == ToLower(parent_path(path)) = ToLower(albumPath)

\* C40: RemoveAlbumFolder after a finalized scan takes the images of the
\* album, and no others, out of the gallery and out of the saved scan cache.
C40_RemovesExactlyTheAlbum ==
    [][\A albumPath \in AlbumPathInputs :
          (ScanFinalized /\ RemoveAlbumFolder(albumPath))
              => /\ gallery'.images =
                       SelectSeq(gallery.images,
                                 LAMBDA p : ~InAlbum(p, albumPath))
                 /\ LoadScanCacheOf(scanCacheFile') =
                       SelectSeq(LoadScanCacheOf(scanCacheFile),
                                 LAMBDA img : ~InAlbum(img.path, albumPath))]_vars

====
